---- MODULE Spec2Model ----
(***************************************************************************)
(* Model of the template-driven STR form extractor (vel-pdf-api/app).      *)
(* Texts are sequences of one-character strings; page coordinates are      *)
(* integers counting 1/Scale of a page unit, so that int() truncation and  *)
(* the inclusive window bounds of the code are observable.                 *)
(***************************************************************************)
EXTENDS Integers, Sequences, FiniteSets, TLC

VARIABLES template_files, template_path, fields, n_docs, last, call

vars == <<template_files, template_path, fields, n_docs, last, call>>

\* ---------------------------------------------------------------- bounds
\* Page coordinates are multiples of 1/Scale of a unit.
Scale == 2
\* Longest page (in positioned words) drawn for a single method call.
MaxWords == 3
\* Longest children table (data rows) drawn for a single method call.
MaxRows == 3
\* Number of documents one extractor instance is asked to extract.
MaxDocs == 3

\* ------------------------------------------------- python str primitives
LowerChars == <<"a","b","c","d","e","f","g","h","i","j","k","l","m",
                "n","o","p","q","r","s","t","u","v","w","x","y","z">>
UpperChars == <<"A","B","C","D","E","F","G","H","I","J","K","L","M",
                "N","O","P","Q","R","S","T","U","V","W","X","Y","Z">>

UpperChar(c) ==
    IF \E i \in 1..Len(LowerChars) : LowerChars[i] = c
    THEN UpperChars[CHOOSE i \in 1..Len(LowerChars) : LowerChars[i] = c]
    ELSE c

LowerChar(c) ==
    IF \E i \in 1..Len(UpperChars) : UpperChars[i] = c
    THEN LowerChars[CHOOSE i \in 1..Len(UpperChars) : UpperChars[i] = c]
    ELSE c

\* str.upper() / str.lower()
Upper(t) == IF t = <<>> THEN <<>> ELSE [i \in 1..Len(t) |-> UpperChar(t[i])]
Lower(t) == IF t = <<>> THEN <<>> ELSE [i \in 1..Len(t) |-> LowerChar(t[i])]

\* `needle in hay` on str
In(needle, hay) ==
    \E i \in 0..(Len(hay) - Len(needle)) :
        SubSeq(hay, i + 1, i + Len(needle)) = needle

Whitespace == {" "}
TrailingPunct == {":", ";", ",", "."}

RECURSIVE LStripSet(_, _)
LStripSet(t, cs) ==
    IF t # <<>> /\ Head(t) \in cs THEN LStripSet(Tail(t), cs) ELSE t

\* str.rstrip(chars)
RECURSIVE RStripSet(_, _)
RStripSet(t, cs) ==
    IF t # <<>> /\ t[Len(t)] \in cs
    THEN RStripSet(SubSeq(t, 1, Len(t) - 1), cs)
    ELSE t

\* str.strip()
Strip(t) == LStripSet(RStripSet(t, Whitespace), Whitespace)

\* index of the first whitespace character of t, Len(t)+1 when there is none
FirstSpace(t) ==
    IF \E i \in 1..Len(t) : t[i] \in Whitespace
    THEN CHOOSE i \in 1..Len(t) :
            /\ t[i] \in Whitespace
            /\ \A j \in 1..(i - 1) : t[j] \notin Whitespace
    ELSE Len(t) + 1

\* str.split() with no argument
RECURSIVE Split(_)
Split(t) ==
    LET s == LStripSet(t, Whitespace)
    IN  IF s = <<>> THEN <<>>
        ELSE LET n == FirstSpace(s)
             IN  <<SubSeq(s, 1, n - 1)>> \o Split(SubSeq(s, n, Len(s)))

\* sep.join(parts)
RECURSIVE Join(_, _)
Join(sep, parts) ==
    IF parts = <<>> THEN <<>>
    ELSE IF Len(parts) = 1 THEN parts[1]
    ELSE parts[1] \o sep \o Join(sep, Tail(parts))

\* int(d) of a difference of two coordinates: truncation toward zero, in units
IntTrunc(d) == IF d >= 0 THEN d \div Scale ELSE -((-d) \div Scale)

Abs(d) == IF d >= 0 THEN d ELSE -d

\* ----------------------------------------------------------- text values
T_EMPTY == <<>>
T_SPACE == <<" ">>
T_KAHWIN == <<"K", "A", "H", "W", "I", "N">>
T_Berkahwin == <<"B", "e", "r", "k", "a", "h", "w", "i", "n">>
T_BUJANG == <<"B", "U", "J", "A", "N", "G">>
T_MAKLUMAT == <<"M", "A", "K", "L", "U", "M", "A", "T">>
T_WARIS == <<"W", "A", "R", "I", "S">>
T_Waris == <<"W", "a", "r", "i", "s">>
T_PEMOHON == <<"P", "E", "M", "O", "H", "O", "N">>
T_PASANGAN == <<"P", "A", "S", "A", "N", "G", "A", "N">>
T_ANAK == <<"A", "N", "A", "K">>
T_MAKLUMATWARIS == <<"M", "A", "K", "L", "U", "M", "A", "T", "W", "A", "R", "I", "S">>
T_ALI == <<"A", "L", "I">>
T_ABU == <<"A", "B", "U">>
T_SITI == <<"S", "I", "T", "I">>
T_LELAKI == <<"L", "E", "L", "A", "K", "I">>
T_IBU == <<"I", "B", "U">>
T_COLON == <<":">>
T_NAMA_COLON == <<"N", "A", "M", "A", ":">>
T_A_B == <<"A", " ", " ", "B">>
T_NAMA == <<"N", "A", "M", "A">>
T_NO_MYKAD_MYKID == <<"N", "O", ".", " ", "M", "Y", "K", "A", "D", "/", "M", "Y", "K", "I", "D">>
T_UMUR == <<"U", "M", "U", "R">>
T_STATUS == <<"S", "T", "A", "T", "U", "S">>
T_NO_MYKID == <<"N", "o", ".", " ", "M", "y", "K", "i", "d">>
T_HUBUNGAN == <<"H", "u", "b", "u", "n", "g", "a", "n">>
T_PENAMA_MYKAD == <<"M", "Y", "K", "A", "D", " ", "P", "E", "N", "A", "M", "A">>
T_CATATAN == <<"C", "A", "T", "A", "T", "A", "N">>
T_NAMA_MYKAD_UMUR == <<"N", "A", "M", "A", " ", "M", "Y", "K", "A", "D", " ", "U", "M", "U", "R">>
T_12 == <<"1", "2">>
T_IC1 == <<"0", "1", "0", "1">>
T_PELAJAR == <<"P", "E", "L", "A", "J", "A", "R">>
K_nama == <<"n", "a", "m", "a">>
K_mykad == <<"m", "y", "k", "a", "d">>
K_mykid == <<"m", "y", "k", "i", "d">>
K_umur == <<"u", "m", "u", "r">>
K_status == <<"s", "t", "a", "t", "u", "s">>
K_hubungan == <<"h", "u", "b", "u", "n", "g", "a", "n">>
T_MYKAD == <<"M", "Y", "K", "A", "D">>
T_IC2 == <<"0", "2", "0", "2">>
T_10 == <<"1", "0">>
T_None == <<"N", "o", "n", "e">>

\* field names, prefixes and suffixes of the templates
F_status_perkahwinan == <<"s", "t", "a", "t", "u", "s", "_", "p", "e", "r", "k", "a", "h", "w", "i", "n", "a", "n">>
F_nama == <<"n", "a", "m", "a">>
F_jantina == <<"j", "a", "n", "t", "i", "n", "a">>
F_pasangan_nama == <<"p", "a", "s", "a", "n", "g", "a", "n", "_", "n", "a", "m", "a">>
F_anak_bilangan == <<"a", "n", "a", "k", "_", "b", "i", "l", "a", "n", "g", "a", "n">>
F_waris_nama == <<"w", "a", "r", "i", "s", "_", "n", "a", "m", "a">>
F_waris_hubungan == <<"w", "a", "r", "i", "s", "_", "h", "u", "b", "u", "n", "g", "a", "n">>
H_pemohon == <<"m", "a", "k", "l", "u", "m", "a", "t", "_", "p", "e", "m", "o", "h", "o", "n", "_", "h", "e", "a", "d", "e", "r">>
H_pasangan == <<"m", "a", "k", "l", "u", "m", "a", "t", "_", "p", "a", "s", "a", "n", "g", "a", "n", "_", "h", "e", "a", "d", "e", "r">>
H_anak == <<"m", "a", "k", "l", "u", "m", "a", "t", "_", "a", "n", "a", "k", "_", "h", "e", "a", "d", "e", "r">>
H_waris == <<"m", "a", "k", "l", "u", "m", "a", "t", "_", "w", "a", "r", "i", "s", "_", "h", "e", "a", "d", "e", "r">>
P_waris == <<"w", "a", "r", "i", "s", "_">>
P_pasangan == <<"p", "a", "s", "a", "n", "g", "a", "n", "_">>
P_anak == <<"a", "n", "a", "k", "_">>
S_header == <<"_", "h", "e", "a", "d", "e", "r">>

\* ------------------------------------------------------ values and pages
\* A template or JSON value: a number, a non-numeric value, or an absent key.
Num(n) == [kind |-> "num", v |-> n]
NonNumeric == [kind |-> "str", v |-> 0]
Missing == [kind |-> "missing", v |-> 0]

BoxKeys == {"x", "y", "width", "height"}

\* A FieldBox with numeric members, given in page units.
Box(x, y, w, h) ==
    [x |-> Num(x * Scale), y |-> Num(y * Scale),
     width |-> Num(w * Scale), height |-> Num(h * Scale)]

\* One positioned word of page.extract_words().
Word(text, x0, top) == [text |-> text, x0 |-> x0, top |-> top]

\* A page: ok = FALSE when extract_words() raises; tables_ok = FALSE when
\* extract_tables() raises.
Page(words, tables) ==
    [ok |-> TRUE, words |-> words, tables_ok |-> TRUE, tables |-> tables]
BrokenPage ==
    [ok |-> FALSE, words |-> <<>>, tables_ok |-> FALSE, tables |-> <<>>]

\* All sequences over S of length at most n.
SeqsUpTo(S, n) == UNION {[1..k -> S] : k \in 0..n}

\* Result of a call that may raise.
Raised == [raised |-> TRUE, value |-> <<>>]
Returned(v) == [raised |-> FALSE, value |-> v]

\* ------------------------------------------------ extract_text_from_box
TOLERANCE_DEFAULT == 5
TOLERANCE_TIGHT == 3

\* WordInBox with the far edges of the window excluded (< for <=).
WordInBox_ExclusiveFarEdges(word, box, y_adjusted, tolerance) ==
    IF box.x.kind # "num" THEN "error"
    ELSE IF ~(box.x.v <= word.x0) THEN "no"
    ELSE IF box.width.kind # "num" THEN "error"
    ELSE IF ~(word.x0 < box.x.v + box.width.v) THEN "no"
    ELSE IF ~(y_adjusted - tolerance * Scale <= word.top) THEN "no"
    ELSE IF box.height.kind # "num" THEN "error"
    ELSE IF ~(word.top < y_adjusted + box.height.v + tolerance * Scale) THEN "no"
    ELSE "match"

\* The filter condition of the list comprehension for one word, in Python's
\* evaluation order: "match", "no", or "error" when a comparison or an
\* addition meets a non-numeric box member (TypeError inside the try).
WordInBox(word, box, y_adjusted, tolerance) ==
    IF box.x.kind # "num" THEN "error"
    ELSE IF ~(box.x.v <= word.x0) THEN "no"
    ELSE IF box.width.kind # "num" THEN "error"
    ELSE IF ~(word.x0 <= box.x.v + box.width.v) THEN "no"
    ELSE IF ~(y_adjusted - tolerance * Scale <= word.top) THEN "no"
    ELSE IF box.height.kind # "num" THEN "error"
    ELSE IF ~(word.top <= y_adjusted + box.height.v + tolerance * Scale) THEN "no"
    ELSE "match"

\* key=lambda w: (w['top'], w['x0']) compared with <
KeyLess(a, b) == a.top < b.top \/ (a.top = b.top /\ a.x0 < b.x0)

\* list.sort is stable: a word goes after every word whose key is not greater.
RECURSIVE InsertWord(_, _)
InsertWord(w, s) ==
    IF s = <<>> THEN <<w>>
    ELSE IF KeyLess(w, Head(s)) THEN <<w>> \o s
    ELSE <<Head(s)>> \o InsertWord(w, Tail(s))

RECURSIVE SortWords(_)
SortWords(ws) ==
    IF ws = <<>> THEN <<>>
    ELSE InsertWord(ws[Len(ws)], SortWords(SubSeq(ws, 1, Len(ws) - 1)))

TextsOf(ws) == IF ws = <<>> THEN <<>> ELSE [i \in 1..Len(ws) |-> ws[i].text]

\* Lines 158-169: join, strip, collapse whitespace, strip trailing punctuation.
JoinFieldWords(field_words) ==
    LET sorted == SortWords(field_words)
        text1  == Join(<<" ">>, TextsOf(sorted))
        text2  == Strip(text1)
        text3  == Join(<<" ">>, Split(text2))
    IN  RStripSet(text3, TrailingPunct)

\* y_offset and tolerance are in page units, as in the code.
extract_text_from_box(page, box, y_offset, tolerance) ==
    IF \E k \in BoxKeys : box[k].kind = "missing" THEN Raised
    ELSE IF box.y.kind # "num" THEN Raised
    ELSE
        LET y_adjusted == box.y.v + y_offset * Scale
            verdict(w) == WordInBox(w, box, y_adjusted, tolerance)
        IN  IF ~page.ok THEN Returned(<<>>)
            ELSE IF \E i \in 1..Len(page.words) : verdict(page.words[i]) = "error"
                 THEN Returned(<<>>)
            ELSE LET field_words ==
                         SelectSeq(page.words, LAMBDA w : verdict(w) = "match")
                 IN  IF field_words # <<>>
                     THEN Returned(JoinFieldWords(field_words))
                     ELSE Returned(<<>>)

\* ------------------------------------------------- extractor at rest
\* Values of the extractor variables in the specifications that exercise a
\* single method and never run extract_from_pdf.
NoFiles == <<>>
NoExtraction == [kind |-> "none"]
NoCall == [fn |-> "none", done |-> TRUE]

\* ----------------------------------- SpecBox: extract_text_from_box alone
\* The probe box spans x in [10, 30] and y in [100, 110] page units.
ProbeBox == Box(10, 100, 20, 10)

BoxWordPool ==
    { Word(T_ALI,        10 * Scale,     95 * Scale),       \* left edge, top edge of the 5-unit window
      Word(T_ABU,        30 * Scale,     115 * Scale),      \* right edge, bottom edge of the 5-unit window
      Word(T_NAMA_COLON, 12 * Scale,     100 * Scale),
      Word(T_A_B,        12 * Scale,     100 * Scale),      \* same key as the word above
      Word(T_COLON,      20 * Scale,     100 * Scale),      \* punctuation only
      Word(T_IBU,        10 * Scale - 1, 100 * Scale),      \* just left of the box
      Word(T_SITI,       15 * Scale,     115 * Scale + 1) } \* just below the 5-unit window

DegenerateBoxes ==
    { [ProbeBox EXCEPT !.y = Missing],
      [ProbeBox EXCEPT !.x = Missing],
      [ProbeBox EXCEPT !.y = NonNumeric],
      [ProbeBox EXCEPT !.x = NonNumeric],
      [ProbeBox EXCEPT !.width = NonNumeric],
      [ProbeBox EXCEPT !.height = NonNumeric] }

BoxCall(page, box, y_offset, tolerance) ==
    [fn |-> "extract_text_from_box", page |-> page, box |-> box,
     y_offset |-> y_offset, tolerance |-> tolerance,
     done |-> FALSE, ret |-> Returned(<<>>)]

BoxCalls ==
    {BoxCall(Page(ws, <<>>), ProbeBox, off, tol) :
        ws \in SeqsUpTo(BoxWordPool, MaxWords),
        off \in {0, 4, -3},
        tol \in {TOLERANCE_DEFAULT, TOLERANCE_TIGHT}}
    \cup
    {BoxCall(pg, bx, 0, TOLERANCE_DEFAULT) :
        pg \in {Page(ws, <<>>) : ws \in SeqsUpTo(BoxWordPool, 1)} \cup {BrokenPage},
        bx \in DegenerateBoxes \cup {ProbeBox}}

InitBox ==
    /\ template_files = NoFiles
    /\ template_path = <<>>
    /\ fields = <<>>
    /\ n_docs = 0
    /\ last = NoExtraction
    /\ call \in BoxCalls

CallExtractTextFromBox ==
    /\ call.fn = "extract_text_from_box"
    /\ ~call.done
    /\ call' = [call EXCEPT
                   !.done = TRUE,
                   !.ret = extract_text_from_box(call.page, call.box,
                                                 call.y_offset, call.tolerance)]
    /\ UNCHANGED <<template_files, template_path, fields, n_docs, last>>

NextBox == CallExtractTextFromBox

SpecBox == InitBox /\ [][NextBox]_vars

BoxCallDone == call.fn = "extract_text_from_box" /\ call.done

NumericBox(box) == \A k \in BoxKeys : box[k].kind = "num"

\* The window of the claim, both bounds inclusive, for a numeric box.
InWindow(w, c) ==
    /\ c.box.x.v <= w.x0
    /\ w.x0 <= c.box.x.v + c.box.width.v
    /\ c.box.y.v + (c.y_offset - c.tolerance) * Scale <= w.top
    /\ w.top <= c.box.y.v + c.box.height.v + (c.y_offset + c.tolerance) * Scale

SelectedIdx(c) == {i \in 1..Len(c.page.words) : InWindow(c.page.words[i], c)}

\* Position of word i among the selected words by ascending (top, x0),
\* equal keys in page order.
RankOf(i, c) ==
    LET ws == c.page.words
    IN  1 + Cardinality({j \in SelectedIdx(c) :
                \/ ws[j].top < ws[i].top
                \/ (ws[j].top = ws[i].top /\ ws[j].x0 < ws[i].x0)
                \/ (ws[j].top = ws[i].top /\ ws[j].x0 = ws[i].x0 /\ j < i)})

ExpectedBoxText(c) ==
    LET sel == SelectedIdx(c)
        ordered == [k \in 1..Cardinality(sel) |->
                       c.page.words[CHOOSE i \in sel : RankOf(i, c) = k].text]
        joined == IF sel = {} THEN <<>> ELSE Join(<<" ">>, ordered)
    IN  RStripSet(Join(<<" ">>, Split(joined)), TrailingPunct)

\* C6: extract_text_from_box never raises, whatever the box and the page, and
\* returns the empty string when no word lies in the box's window.
C6_NeverRaises ==
    BoxCallDone =>
        /\ ~call.ret.raised
        /\ (NumericBox(call.box) /\ SelectedIdx(call) = {}) => call.ret.value = <<>>

\* C7: for a numeric box on a readable page the result is exactly the texts of
\* the words inside the inclusive window, in ascending (top, x0) order, joined
\* by single spaces, whitespace runs collapsed, trailing ":;,." removed.
C7_WindowSortJoin ==
    (BoxCallDone /\ NumericBox(call.box) /\ call.page.ok) =>
        call.ret = Returned(ExpectedBoxText(call))

\* A call where words on both inclusive edges match, a third word is left
\* out, and the sorted order differs from the page order.
C7_Witness ==
    /\ BoxCallDone /\ NumericBox(call.box) /\ call.page.ok
    /\ call.y_offset = 0 /\ call.tolerance = TOLERANCE_DEFAULT
    /\ Len(call.page.words) = 3
    /\ call.page.words[1] = Word(T_ABU, 30 * Scale, 115 * Scale)
    /\ call.page.words[2] = Word(T_SITI, 15 * Scale, 115 * Scale + 1)
    /\ call.page.words[3] = Word(T_ALI, 10 * Scale, 95 * Scale)
    /\ call.ret = Returned(T_ALI \o <<" ">> \o T_ABU)

\* ------------------------------------------------ detect_section_offset
SEARCH_RANGE_DEFAULT == 50
SEARCH_RANGE_WARIS == 200
X_MARGIN == 20
SAME_LINE_THRESHOLD == 5

\* An int or None.
NoneValue == [none |-> TRUE, v |-> 0]
Some(n) == [none |-> FALSE, v |-> n]

WarisHeader == H_waris

\* header_keywords.get(header_field_name, ['MAKLUMAT'])
HeaderKeywords(h) ==
    CASE h = H_pemohon   -> {T_MAKLUMAT, T_PEMOHON}
      [] h = H_pasangan  -> {T_MAKLUMAT, T_PASANGAN}
      [] h = H_anak      -> {T_MAKLUMAT, T_ANAK}
      [] h = WarisHeader -> {T_MAKLUMAT, T_WARIS}
      [] OTHER                          -> {T_MAKLUMAT}

SearchRange(h) ==
    IF h = WarisHeader THEN SEARCH_RANGE_WARIS ELSE SEARCH_RANGE_DEFAULT

\* template_x - 20 <= word_x <= template_x + template_w + 20
InXRange(word, box) ==
    /\ box.x.v - X_MARGIN * Scale <= word.x0
    /\ word.x0 <= box.x.v + box.width.v + X_MARGIN * Scale

\* The variant with the next-of-kin radius for every header.
InYRange_WarisRadius(word, box, h) ==
    Abs(word.top - box.y.v) <= SEARCH_RANGE_WARIS * Scale

\* abs(word_y - template_y) <= search_range
InYRange(word, box, h) ==
    Abs(word.top - box.y.v) <= SearchRange(h) * Scale

\* Lines 79-92: the words kept as MAKLUMAT candidates of the waris header.
MaklumatWords(page, box, page_count) ==
    SelectSeq(page.words, LAMBDA w :
        /\ InXRange(w, box)
        /\ (page_count > 1 \/ InYRange(w, box, WarisHeader))
        /\ In(T_MAKLUMAT, Upper(w.text)))

\* Lines 79-92: the elif branch, words with WARIS and without MAKLUMAT.
WarisWords(page, box, page_count) ==
    SelectSeq(page.words, LAMBDA w :
        /\ InXRange(w, box)
        /\ (page_count > 1 \/ InYRange(w, box, WarisHeader))
        /\ ~In(T_MAKLUMAT, Upper(w.text))
        /\ In(T_WARIS, Upper(w.text)))

\* abs(mak_y - war_y) <= 5
SameLine(m, w) == Abs(m.top - w.top) <= SAME_LINE_THRESHOLD * Scale

\* Lines 95-103: the first MAKLUMAT word, in list order, that has a WARIS
\* word on its line; <<>> when there is none.
WarisAnchor(page, box, page_count) ==
    LET mw == MaklumatWords(page, box, page_count)
        ww == WarisWords(page, box, page_count)
        paired(i) == \E j \in 1..Len(ww) : SameLine(mw[i], ww[j])
    IN  IF \E i \in 1..Len(mw) : paired(i)
        THEN <<mw[CHOOSE i \in 1..Len(mw) :
                      paired(i) /\ \A k \in 1..(i - 1) : ~paired(k)]>>
        ELSE <<>>

\* The variant that takes the last candidate instead of the first.
PlainAnchor_Last(page, box, h) ==
    LET candidates ==
            SelectSeq(page.words, LAMBDA w :
                /\ \E kw \in HeaderKeywords(h) : In(kw, Upper(w.text))
                /\ InXRange(w, box)
                /\ InYRange(w, box, h))
    IN  IF candidates # <<>> THEN <<candidates[Len(candidates)]>> ELSE <<>>

\* Lines 106-122: the first word, in page order, matching a keyword of the
\* section inside the x-range and the search radius; <<>> when there is none.
PlainAnchor(page, box, h) ==
    LET candidates ==
            SelectSeq(page.words, LAMBDA w :
                /\ \E kw \in HeaderKeywords(h) : In(kw, Upper(w.text))
                /\ InXRange(w, box)
                /\ InYRange(w, box, h))
    IN  IF candidates # <<>> THEN <<candidates[1]>> ELSE <<>>

\* flds is self.fields; header boxes of a template are numeric.
detect_section_offset(flds, page, h, page_count) ==
    IF h \notin DOMAIN flds THEN Some(0)
    ELSE
        LET template_box == flds[h]
            template_y == template_box.y.v
        IN  IF ~page.ok THEN Some(0)
            ELSE IF h = WarisHeader
            THEN LET a == WarisAnchor(page, template_box, page_count)
                 IN  IF a # <<>> THEN Some(IntTrunc(a[1].top - template_y))
                     ELSE NoneValue
            ELSE LET a == PlainAnchor(page, template_box, h)
                 IN  IF a # <<>> THEN Some(IntTrunc(a[1].top - template_y))
                     ELSE Some(0)

\* ------------------------------------------------------- template files
\* The three template documents (fields only; pdf_dimensions is never read).
\* Boxes are given in page units.
TemplateWithPasangan ==
    (H_pemohon :> Box(50, 60, 100, 10)) @@
    (F_nama :> Box(150, 80, 200, 10)) @@
    (F_jantina :> Box(150, 100, 100, 10)) @@
    (F_status_perkahwinan :> Box(150, 120, 100, 10)) @@
    (H_pasangan :> Box(50, 200, 100, 10)) @@
    (F_pasangan_nama :> Box(150, 220, 200, 10)) @@
    (H_anak :> Box(50, 300, 100, 10)) @@
    (F_anak_bilangan :> Box(150, 320, 50, 10)) @@
    (H_waris :> Box(50, 400, 100, 10)) @@
    (F_waris_nama :> Box(150, 420, 200, 10)) @@
    (F_waris_hubungan :> Box(150, 440, 200, 10))

TemplateBase == TemplateWithPasangan

TemplateWithoutPasangan ==
    (H_pemohon :> Box(50, 60, 100, 10)) @@
    (F_nama :> Box(150, 80, 200, 10)) @@
    (F_jantina :> Box(150, 100, 100, 10)) @@
    (F_status_perkahwinan :> Box(150, 120, 100, 10)) @@
    (H_anak :> Box(50, 200, 100, 10)) @@
    (F_anak_bilangan :> Box(150, 220, 50, 10)) @@
    (H_waris :> Box(50, 300, 100, 10)) @@
    (F_waris_nama :> Box(150, 320, 200, 10)) @@
    (F_waris_hubungan :> Box(150, 340, 200, 10))

\* f without the keys in ks
Without(f, ks) == [k \in (DOMAIN f) \ ks |-> f[k]]

\* A spouse-inclusive template whose marital-status box sits 20 units lower.
TemplateWithPasanganMovedStatus ==
    [TemplateWithPasangan EXCEPT ![F_status_perkahwinan] = Box(150, 140, 100, 10)]

\* A spouse-free template with neither a marital-status box nor a
\* next-of-kin header box.
TemplateWithoutPasanganBare ==
    Without(TemplateWithoutPasangan, {F_status_perkahwinan, H_waris})

\* ----------------------------------- SpecDetect: detect_section_offset alone
\* Words around the next-of-kin header of TemplateWithPasangan (x in
\* [50, 150], y = 400) and the applicant header (y = 60).
DetectWordPool ==
    { Word(T_MAKLUMAT,      50 * Scale,      400 * Scale - 7),   \* 3.5 units above the template
      Word(T_Waris,         100 * Scale,     400 * Scale + 3),   \* exactly 5 units below the word above
      Word(T_WARIS,         100 * Scale,     400 * Scale + 4),   \* 5.5 units below it
      Word(T_MAKLUMAT,      30 * Scale,      600 * Scale),       \* left x-limit, on the 200-unit radius
      Word(T_WARIS,         170 * Scale,     600 * Scale + 1),   \* right x-limit, just outside the radius
      Word(T_MAKLUMATWARIS, 50 * Scale,      400 * Scale),
      Word(T_WARIS,         170 * Scale + 1, 400 * Scale),       \* just right of the x-range
      Word(T_PEMOHON,       60 * Scale,      60 * Scale - 3),
      Word(T_MAKLUMAT,      50 * Scale,      600 * Scale + 2),   \* one unit outside the radius
      Word(T_MAKLUMAT,      50 * Scale,      60 * Scale + 8) }   \* a second applicant-header match

DetectCall(page, h, page_count) ==
    [fn |-> "detect_section_offset", page |-> page, header_field_name |-> h,
     page_count |-> page_count, done |-> FALSE, ret |-> NoneValue]

DetectCalls ==
    {DetectCall(pg, h, pc) :
        pg \in {Page(ws, <<>>) : ws \in SeqsUpTo(DetectWordPool, MaxWords)}
               \cup {BrokenPage},
        h \in {H_pemohon, H_pasangan, H_anak, H_waris},
        pc \in {1, 2}}

InitDetect ==
    /\ template_files = NoFiles
    /\ template_path = <<>>
    /\ fields \in {TemplateWithPasangan, TemplateWithoutPasanganBare}
    /\ n_docs = 0
    /\ last = NoExtraction
    /\ call \in DetectCalls

CallDetectSectionOffset ==
    /\ call.fn = "detect_section_offset"
    /\ ~call.done
    /\ call' = [call EXCEPT
                   !.done = TRUE,
                   !.ret = detect_section_offset(fields, call.page,
                               call.header_field_name, call.page_count)]
    /\ UNCHANGED <<template_files, template_path, fields, n_docs, last>>

NextDetect == CallDetectSectionOffset

SpecDetect == InitDetect /\ [][NextDetect]_vars

WarisDetectDone ==
    /\ call.fn = "detect_section_offset" /\ call.done
    /\ call.header_field_name = H_waris

\* A MAKLUMAT word and a different WARIS word of the page on one line
\* (at most 5 units apart vertically).
SameLineHeaderPair(page) ==
    \E i, j \in 1..Len(page.words) :
        /\ i # j
        /\ In(T_MAKLUMAT, Upper(page.words[i].text))
        /\ In(T_WARIS, Upper(page.words[j].text))
        /\ Abs(page.words[i].top - page.words[j].top) <= SAME_LINE_THRESHOLD * Scale

\* C3: whatever the page and the loaded template, the next-of-kin detection
\* returns None, never 0, when the page has no same-line MAKLUMAT/WARIS pair.
C3_WarisNotFoundIsNone ==
    (WarisDetectDone /\ ~SameLineHeaderPair(call.page)) => call.ret = NoneValue

\* C4: a next-of-kin match (a result other than None) is reported only when a
\* MAKLUMAT word and a different WARIS word, both in the header's x-range, lie
\* at most 5 units apart vertically, and the offset is int(top of that
\* MAKLUMAT word - template y).
C4_WarisMatchNeedsPair ==
    (WarisDetectDone /\ ~call.ret.none) =>
        /\ H_waris \in DOMAIN fields
        /\ \E i, j \in 1..Len(call.page.words) :
              LET m == call.page.words[i]
                  w == call.page.words[j]
              IN  /\ i # j
                  /\ In(T_MAKLUMAT, Upper(m.text))
                  /\ In(T_WARIS, Upper(w.text))
                  /\ InXRange(m, fields[H_waris])
                  /\ InXRange(w, fields[H_waris])
                  /\ Abs(m.top - w.top) <= SAME_LINE_THRESHOLD * Scale
                  /\ call.ret.v = IntTrunc(m.top - fields[H_waris].y.v)

\* The pairing rule where the loaded template has the header box and the
\* page's words can be read: the part of C3 and C4 the code does implement.
WarisPairingInBranch ==
    (WarisDetectDone /\ H_waris \in DOMAIN fields /\ call.page.ok) =>
        /\ ~SameLineHeaderPair(call.page) => call.ret = NoneValue
        /\ ~call.ret.none =>
              \E i, j \in 1..Len(call.page.words) :
                  LET m == call.page.words[i]
                      w == call.page.words[j]
                  IN  /\ i # j
                      /\ In(T_MAKLUMAT, Upper(m.text))
                      /\ In(T_WARIS, Upper(w.text))
                      /\ InXRange(m, fields[H_waris])
                      /\ InXRange(w, fields[H_waris])
                      /\ Abs(m.top - w.top) <= SAME_LINE_THRESHOLD * Scale
                      /\ call.ret.v = IntTrunc(m.top - fields[H_waris].y.v)

\* --------------------------------------------------- extract_anak_table
\* A table cell: None or a str.
NoCell == [none |-> TRUE, text |-> <<>>]
Cell(t) == [none |-> FALSE, text |-> t]

\* bool(cell)
Truthy(cell) == ~cell.none /\ cell.text # <<>>
\* str(cell)
StrOf(cell) == IF cell.none THEN T_None ELSE cell.text

CellsOf(row) == IF row = <<>> THEN <<>> ELSE [i \in 1..Len(row) |-> row[i]]

\* ' '.join([str(cell or '').upper() for cell in header])
HeaderText(header) ==
    Join(<<" ">>,
         [i \in DOMAIN CellsOf(header) |->
             IF Truthy(header[i]) THEN Upper(StrOf(header[i])) ELSE <<>>])

\* Line 191
HeaderAccepted(header) ==
    LET header_text == HeaderText(header)
    IN  /\ In(T_NAMA, header_text)
        /\ In(T_MYKAD, header_text)
        /\ In(T_UMUR, header_text)

\* RowIsBlank that takes only None and '' for blank, not whitespace.
RowIsBlank_NoStrip(row) ==
    \A i \in 1..Len(row) : row[i].none \/ StrOf(row[i]) = <<>>

\* Line 195: all(cell is None or str(cell).strip() == '' for cell in row)
RowIsBlank(row) ==
    \A i \in 1..Len(row) : row[i].none \/ Strip(StrOf(row[i])) = <<>>

\* Lines 203-212: the canonical key of a header cell, "" when unrecognized.
FieldKey(header_cell) ==
    LET field_name == Lower(Strip(StrOf(header_cell)))
    IN  IF In(K_nama, field_name) THEN "nama"
        ELSE IF In(K_mykad, field_name) \/ In(K_mykid, field_name) THEN "no_mykad"
        ELSE IF In(K_umur, field_name) THEN "umur"
        ELSE IF In(K_status, field_name) \/ In(K_hubungan, field_name) THEN "status"
        ELSE ""

\* Line 201: str(cell).strip() if cell else ""
CellValue(cell) == IF Truthy(cell) THEN Strip(StrOf(cell)) ELSE <<>>

\* Lines 199-212: the dict built for one row; a later column overwrites an
\* earlier one that maps to the same key.
ChildOf(row, header) ==
    LET mapped == {i \in 1..Len(row) :
                      i <= Len(header) /\ Truthy(header[i]) /\ FieldKey(header[i]) # ""}
        keys == {FieldKey(header[i]) : i \in mapped}
        lastOf(k) == CHOOSE i \in mapped :
                        /\ FieldKey(header[i]) = k
                        /\ \A j \in mapped : FieldKey(header[j]) = k => j <= i
    IN  [k \in keys |-> CellValue(row[lastOf(k)])]

\* Lines 194-215
RECURSIVE ChildrenOf(_, _)
ChildrenOf(rows, header) ==
    IF rows = <<>> THEN <<>>
    ELSE LET row == Head(rows)
             rest == ChildrenOf(Tail(rows), header)
         IN  IF row = <<>> \/ RowIsBlank(row) THEN rest
             ELSE LET child == ChildOf(row, header)
                  IN  IF DOMAIN child # {} THEN <<child>> \o rest ELSE rest

\* Lines 183-191: a table the loop does not skip.
TableAccepted(table) == Len(table) >= 2 /\ HeaderAccepted(table[1])

\* Always returns a list: [] when no table is accepted or extract_tables raises.
extract_anak_table(page) ==
    IF ~page.tables_ok THEN <<>>
    ELSE IF \E t \in 1..Len(page.tables) : TableAccepted(page.tables[t])
    THEN LET t == CHOOSE t \in 1..Len(page.tables) :
                     /\ TableAccepted(page.tables[t])
                     /\ \A u \in 1..(t - 1) : ~TableAccepted(page.tables[u])
         IN  ChildrenOf(Tail(page.tables[t]), page.tables[t][1])
    ELSE <<>>

\* ------------------------------------- SpecAnak: extract_anak_table alone
HeaderPool ==
    { <<Cell(T_NAMA), Cell(T_NO_MYKAD_MYKID), Cell(T_UMUR), Cell(T_STATUS)>>,
      <<Cell(T_NAMA), Cell(T_PENAMA_MYKAD), Cell(T_UMUR), Cell(T_STATUS)>>,
      <<Cell(T_NAMA), Cell(T_MYKAD), Cell(T_UMUR), Cell(T_HUBUNGAN)>>,
      <<Cell(T_NAMA), Cell(T_NO_MYKID), Cell(T_UMUR)>>,
      <<Cell(T_CATATAN), Cell(T_NAMA_MYKAD_UMUR)>> }

RowPool ==
    { <<Cell(T_ALI), Cell(T_IC1), Cell(T_12), Cell(T_PELAJAR)>>,
      <<Cell(T_ABU), Cell(T_IC2), Cell(T_10), NoCell>>,
      <<NoCell, Cell(T_EMPTY), Cell(T_SPACE), NoCell>>,
      <<Cell(T_SITI)>>,
      <<Cell(T_EMPTY), NoCell, NoCell, Cell(T_PELAJAR)>> }

AnakTables ==
    {<<h>> \o rows : h \in HeaderPool, rows \in SeqsUpTo(RowPool, MaxRows)}

\* A table of the page that is not the children table.
OtherTable == <<<<Cell(T_CATATAN)>>, <<Cell(T_ALI)>>>>

AnakCall(page) ==
    [fn |-> "extract_anak_table", page |-> page, done |-> FALSE, ret |-> <<>>]

AnakCalls ==
    {AnakCall(Page(<<>>, <<t>>)) : t \in AnakTables}
    \cup {AnakCall(Page(<<>>, <<OtherTable, t>>)) : t \in AnakTables}
    \cup {AnakCall(Page(<<>>, <<>>)), AnakCall(BrokenPage)}

InitAnak ==
    /\ template_files = NoFiles
    /\ template_path = <<>>
    /\ fields = <<>>
    /\ n_docs = 0
    /\ last = NoExtraction
    /\ call \in AnakCalls

CallExtractAnakTable ==
    /\ call.fn = "extract_anak_table"
    /\ ~call.done
    /\ call' = [call EXCEPT !.done = TRUE,
                            !.ret = extract_anak_table(call.page)]
    /\ UNCHANGED <<template_files, template_path, fields, n_docs, last>>

NextAnak == CallExtractAnakTable

SpecAnak == InitAnak /\ [][NextAnak]_vars

\* The call has returned and some table of the page was accepted.
AnakAccepted ==
    /\ call.fn = "extract_anak_table" /\ call.done
    /\ call.page.tables_ok
    /\ \E t \in 1..Len(call.page.tables) : TableAccepted(call.page.tables[t])

\* The first accepted table of the page.
AcceptedTable ==
    call.page.tables[CHOOSE t \in 1..Len(call.page.tables) :
        /\ TableAccepted(call.page.tables[t])
        /\ \A u \in 1..(t - 1) : ~TableAccepted(call.page.tables[u])]

ChildKeys == {"nama", "no_mykad", "umur", "status"}

\* A header cell names a recognized column.
Recognized(hc) ==
    /\ ~hc.none
    /\ \E tok \in {K_nama, K_mykad, K_mykid, K_umur, K_status, K_hubungan} :
          In(tok, Lower(hc.text))

\* Data rows (indices into the table, header = 1) that yield a record: not
\* entirely blank and with a cell under a recognized column.
RecordRows(table) ==
    {r \in 2..Len(table) :
        /\ \E i \in 1..Len(table[r]) :
              ~table[r][i].none /\ Strip(table[r][i].text) # <<>>
        /\ \E i \in 1..Len(table[r]) :
              i <= Len(table[1]) /\ Recognized(table[1][i])}

\* The k-th smallest element of a set of naturals.
KthOf(S, k) == CHOOSE r \in S : Cardinality({q \in S : q < r}) = k - 1

\* C9: an accepted table yields one record per data row that is not entirely
\* blank and has a cell under a recognized column, in row order; blank rows
\* and rows without a recognized cell yield none.
C9_OneChildPerDataRow ==
    AnakAccepted =>
        LET table == AcceptedTable
            rr == RecordRows(table)
        IN  /\ Len(call.ret) = Cardinality(rr)
            /\ \A k \in 1..Len(call.ret) :
                  LET row == table[KthOf(rr, k)]
                      child == call.ret[k]
                  IN  /\ DOMAIN child # {}
                      /\ DOMAIN child \subseteq ChildKeys
                      /\ \A key \in DOMAIN child :
                            \E i \in 1..Len(row) :
                                /\ i <= Len(table[1])
                                /\ Recognized(table[1][i])
                                /\ child[key] = IF row[i].none THEN <<>>
                                                ELSE Strip(row[i].text)

\* The table of the specification's example: the four-column header, two
\* children and a fully blank row between them, giving exactly two records.
C9_Witness ==
    /\ call.fn = "extract_anak_table" /\ call.done
    /\ call.page.tables =
          << << <<Cell(T_NAMA), Cell(T_NO_MYKAD_MYKID), Cell(T_UMUR), Cell(T_STATUS)>>,
                <<Cell(T_ALI), Cell(T_IC1), Cell(T_12), Cell(T_PELAJAR)>>,
                <<NoCell, Cell(T_EMPTY), Cell(T_SPACE), NoCell>>,
                <<Cell(T_ABU), Cell(T_IC2), Cell(T_10), NoCell>> >> >>
    /\ Len(call.ret) = 2
    /\ call.ret[1]["nama"] = T_ALI
    /\ call.ret[2]["nama"] = T_ABU
    /\ call.ret[2]["status"] = <<>>

\* C10: in every record of an accepted table, the cell under a header that
\* contains "mykad" or "mykid" is stored under no_mykad whatever else the
\* header contains, the cell under a header that contains "status" or
\* "hubungan" is stored under status, and no other key than nama, no_mykad,
\* umur, status occurs.
C10_MykadAlwaysNoMykad ==
    AnakAccepted =>
        LET table == AcceptedTable
            rr == RecordRows(table)
        IN  \A k \in 1..Len(call.ret) :
                LET row == table[KthOf(rr, k)]
                    child == call.ret[k]
                    stored(i, key) ==
                        /\ key \in DOMAIN child
                        /\ child[key] = IF row[i].none THEN <<>>
                                        ELSE Strip(row[i].text)
                IN  /\ DOMAIN child \subseteq ChildKeys
                    /\ \A i \in 1..Len(row) :
                          (i <= Len(table[1]) /\ ~table[1][i].none) =>
                              LET h == Lower(table[1][i].text)
                              IN  /\ (In(K_mykad, h) \/ In(K_mykid, h))
                                        => stored(i, "no_mykad")
                                  /\ (In(K_status, h) \/ In(K_hubungan, h))
                                        => stored(i, "status")

\* ------------------------------------------------------ extract_from_pdf
BaseTemplatePath == "app/templates/template.json"
WithPasanganPath == "app/templates/template_with_pasangan.json"
WithoutPasanganPath == "app/templates/template_without_pasangan.json"

\* str.startswith / str.endswith
StartsWith(t, prefix) ==
    Len(t) >= Len(prefix) /\ SubSeq(t, 1, Len(prefix)) = prefix
EndsWith(t, suffix) ==
    Len(t) >= Len(suffix) /\ SubSeq(t, Len(t) - Len(suffix) + 1, Len(t)) = suffix

\* str.replace(old, '')
RECURSIVE RemoveAll(_, _)
RemoveAll(t, old) ==
    IF Len(t) < Len(old) THEN t
    ELSE IF SubSeq(t, 1, Len(old)) = old
         THEN RemoveAll(SubSeq(t, Len(old) + 1, Len(t)), old)
         ELSE <<Head(t)>> \o RemoveAll(Tail(t), old)

\* A document: openable = FALSE when pdfplumber.open raises.
Doc(pages) == [openable |-> TRUE, pages |-> pages]
UnreadableDoc == [openable |-> FALSE, pages |-> <<>>]

\* Lines 389-392: the text of the marital-status box of the loaded template,
\* before .upper(); the box is read with the default offset and tolerance.
ReadStatusBox(flds, page) ==
    IF F_status_perkahwinan \in DOMAIN flds
    THEN extract_text_from_box(page, flds[F_status_perkahwinan], 0, TOLERANCE_DEFAULT)
    ELSE Returned(<<>>)

\* SelectTemplate deciding on the single token instead of the married one.
SelectTemplate_ByBujang(status_perkahwinan) ==
    IF In(T_BUJANG, status_perkahwinan)
    THEN WithoutPasanganPath
    ELSE WithPasanganPath

\* Lines 395-398; status_perkahwinan is already upper-cased.
SelectTemplate(status_perkahwinan) ==
    IF In(T_KAHWIN, status_perkahwinan)
    THEN WithPasanganPath
    ELSE WithoutPasanganPath

\* SectionOffsetFor that gives the children fields the applicant offset.
SectionOffsetFor_AnakAsPemohon(field_name, offs) ==
    IF StartsWith(field_name, P_waris)
    THEN (IF ~offs.waris.none THEN offs.waris.v ELSE 0)
    ELSE IF StartsWith(field_name, P_pasangan) THEN offs.pasangan
    ELSE offs.pemohon

\* Lines 441-453: the offset used for a field, by name prefix. offs holds the
\* four computed offsets; waris is an int or None.
SectionOffsetFor(field_name, offs) ==
    IF StartsWith(field_name, P_waris)
    THEN (IF ~offs.waris.none THEN offs.waris.v ELSE 0)
    ELSE IF StartsWith(field_name, P_pasangan) THEN offs.pasangan
    ELSE IF StartsWith(field_name, P_anak) THEN offs.anak
    ELSE offs.pemohon

\* ExtractPageFor that reads every field from page 1.
ExtractPageFor_AlwaysPage1(field_name, waris_page) == 1

\* Lines 441-453: the page a field is read from (1 or 2).
ExtractPageFor(field_name, waris_page) ==
    IF StartsWith(field_name, P_waris) THEN waris_page ELSE 1

\* Line 456
ToleranceFor(field_name) ==
    IF field_name = F_jantina THEN TOLERANCE_TIGHT ELSE TOLERANCE_DEFAULT

\* Lines 420-424: the outcome of the page-2 attempt.
WarisFromPage2(waris_offset_page1, waris_offset_page2) ==
    IF ~waris_offset_page2.none
    THEN [page2_consulted |-> TRUE, waris_offset_page2 |-> waris_offset_page2,
          waris_exists |-> TRUE, waris_offset |-> waris_offset_page2,
          waris_page |-> 2]
    ELSE [page2_consulted |-> TRUE, waris_offset_page2 |-> waris_offset_page2,
          waris_exists |-> FALSE, waris_offset |-> waris_offset_page1,
          waris_page |-> 1]

\* Lines 413-424: the next-of-kin decision from the page-1 result. Gives
\* the final offset, the exists flag, the page, and whether page 2 was read.
WarisDecision(flds, doc, page_count, waris_offset_page1) ==
    IF waris_offset_page1.none /\ page_count > 1
    THEN WarisFromPage2(waris_offset_page1,
             detect_section_offset(flds, doc.pages[2], WarisHeader, page_count))
    ELSE [page2_consulted |-> FALSE, waris_offset_page2 |-> NoneValue,
          waris_exists |-> ~waris_offset_page1.none,
          waris_offset |-> waris_offset_page1,
          waris_page |-> 1]

\* Lines 431-459: one record per call of extract_text_from_box in the loop.
BulkLookups(flds, doc, offs, wd) ==
    {[field_name |-> f,
      box |-> flds[f],
      page_no |-> ExtractPageFor(f, wd.waris_page),
      y_offset |-> SectionOffsetFor(f, offs),
      tolerance |-> ToleranceFor(f),
      result |-> extract_text_from_box(doc.pages[ExtractPageFor(f, wd.waris_page)],
                     flds[f], SectionOffsetFor(f, offs), ToleranceFor(f))] :
        f \in {g \in DOMAIN flds :
                  /\ ~EndsWith(g, S_header)
                  /\ ~(StartsWith(g, P_waris) /\ ~wd.waris_exists)}}

\* Lines 461-469: the three dicts filled by the loop.
GroupOf(field_name) ==
    IF StartsWith(field_name, P_pasangan) THEN "pasangan"
    ELSE IF StartsWith(field_name, P_waris) THEN "waris"
    ELSE "all"

CleanName(field_name) ==
    IF StartsWith(field_name, P_pasangan) THEN RemoveAll(field_name, P_pasangan)
    ELSE IF StartsWith(field_name, P_waris) THEN RemoveAll(field_name, P_waris)
    ELSE field_name

FieldsOfGroup(lookups, g) ==
    LET ls == {l \in lookups : GroupOf(l.field_name) = g}
    IN  [k \in {CleanName(l.field_name) : l \in ls} |->
            (CHOOSE l \in ls : CleanName(l.field_name) = k).result.value]

\* An exception leaving extract_from_pdf; fields_after is what self.fields
\* holds when it does.
Failed(doc, flds, flds_after) ==
    [kind |-> "error", doc |-> doc, fields_before |-> flds, fields_after |-> flds_after]

\* Lines 461-475: grouping of the loop's results, the children table and
\* the returned dict.
Collect(doc, flds, flds2, status_raw, template_to_use, reloaded, wd, offs, waris_offset_page1, lookups) ==
    IF \E l \in lookups : l.result.raised
    THEN Failed(doc, flds, flds2)
    ELSE [kind |-> "ok", doc |-> doc,
          fields_before |-> flds, fields_after |-> flds2,
          status_raw |-> status_raw,
          status_perkahwinan |-> Upper(status_raw),
          template_to_use |-> template_to_use,
          reloaded |-> reloaded,
          page_count |-> Len(doc.pages),
          offsets |-> offs,
          waris_offset_page1 |-> waris_offset_page1,
          page2_consulted |-> wd.page2_consulted,
          waris_offset_page2 |-> wd.waris_offset_page2,
          waris_exists |-> wd.waris_exists,
          waris_page |-> wd.waris_page,
          lookups |-> lookups,
          all_fields |-> FieldsOfGroup(lookups, "all"),
          pasangan_fields |-> FieldsOfGroup(lookups, "pasangan"),
          waris_fields |-> FieldsOfGroup(lookups, "waris"),
          children |-> extract_anak_table(doc.pages[1])]

\* Lines 431-459: the bulk loop with the offsets and the next-of-kin
\* decision in hand.
BulkExtract(doc, flds, flds2, status_raw, template_to_use, reloaded, wd, offs, waris_offset_page1) ==
    Collect(doc, flds, flds2, status_raw, template_to_use, reloaded, wd, offs,
            waris_offset_page1, BulkLookups(flds2, doc, offs, wd))

\* Lines 413-428: the next-of-kin decision joins the three other offsets.
DecideWaris(doc, flds, flds2, status_raw, template_to_use, reloaded, pemohon_offset, pasangan_offset, anak_offset, waris_offset_page1, wd) ==
    BulkExtract(doc, flds, flds2, status_raw, template_to_use, reloaded, wd,
                [pemohon |-> pemohon_offset, pasangan |-> pasangan_offset,
                 anak |-> anak_offset, waris |-> wd.waris_offset],
                waris_offset_page1)

\* Lines 408-411: the four section offsets, all detected on page 1 with
\* the template now loaded.
DetectOffsets(doc, flds, flds2, status_raw, template_to_use, reloaded, waris_offset_page1) ==
    DecideWaris(doc, flds, flds2, status_raw, template_to_use, reloaded,
                detect_section_offset(flds2, doc.pages[1], H_pemohon, Len(doc.pages)).v,
                detect_section_offset(flds2, doc.pages[1], H_pasangan, Len(doc.pages)).v,
                detect_section_offset(flds2, doc.pages[1], H_anak, Len(doc.pages)).v,
                waris_offset_page1,
                WarisDecision(flds2, doc, Len(doc.pages), waris_offset_page1))

\* Lines 401-411: the selected template is loaded when its path differs
\* from self.template_path; load_template assigns self.fields only, so
\* template_path stays as __init__ set it.
LoadSelected(doc, flds, flds2, status_raw, template_to_use, reloaded) ==
    DetectOffsets(doc, flds, flds2, status_raw, template_to_use, reloaded,
        detect_section_offset(flds2, doc.pages[1], WarisHeader, Len(doc.pages)))

\* Lines 395-402
SelectAndLoad(doc, flds, path, files, status_raw, template_to_use) ==
    LoadSelected(doc, flds,
                 IF template_to_use # path THEN files[template_to_use] ELSE flds,
                 status_raw, template_to_use, template_to_use # path)

\* Lines 388-398: stage 1 with the template currently loaded.
AfterStatusRead(doc, flds, path, files, status_read) ==
    IF status_read.raised
    THEN Failed(doc, flds, flds)
    ELSE SelectAndLoad(doc, flds, path, files, status_read.value,
                       SelectTemplate(Upper(status_read.value)))

\* The whole of extract_from_pdf for an extractor whose loaded template is
\* flds and whose template_path is path; files are the template documents.
ExtractOutcome(flds, path, files, doc) ==
    IF ~doc.openable \/ doc.pages = <<>>
    THEN Failed(doc, flds, flds)
    ELSE AfterStatusRead(doc, flds, path, files, ReadStatusBox(flds, doc.pages[1]))

\* ------------------------------------------------------------ documents
\* Page 1 of a married applicant, laid out as TemplateWithPasangan with the
\* applicant section printed 3.5 units low, the children section 10 units
\* low and the spouse section in place.
MarriedWords ==
    << Word(T_MAKLUMAT,  50 * Scale,  60 * Scale + 7),
       Word(T_PEMOHON,   110 * Scale, 60 * Scale + 7),
       Word(T_ALI,       150 * Scale, 80 * Scale + 7),
       Word(T_LELAKI,    150 * Scale, 100 * Scale + 7),
       Word(T_Berkahwin, 150 * Scale, 120 * Scale + 7),
       Word(T_MAKLUMAT,  50 * Scale,  200 * Scale),
       Word(T_PASANGAN,  110 * Scale, 200 * Scale),
       Word(T_SITI,      150 * Scale, 220 * Scale),
       Word(T_MAKLUMAT,  50 * Scale,  310 * Scale),
       Word(T_ANAK,      110 * Scale, 310 * Scale),
       Word(T_12,        150 * Scale, 330 * Scale) >>

\* The next-of-kin section printed 3.5 units above its place in
\* TemplateWithPasangan.
WarisWordsAt400 ==
    << Word(T_MAKLUMAT,  50 * Scale,  400 * Scale - 7),
       Word(T_WARIS,     110 * Scale, 400 * Scale - 7),
       Word(T_ABU,       150 * Scale, 420 * Scale - 7),
       Word(T_IBU,       150 * Scale, 440 * Scale - 7) >>

\* Page 1 of a single applicant, laid out as TemplateWithoutPasangan.
SingleWords ==
    << Word(T_MAKLUMAT,  50 * Scale,  60 * Scale),
       Word(T_PEMOHON,   110 * Scale, 60 * Scale),
       Word(T_SITI,      150 * Scale, 80 * Scale),
       Word(T_BUJANG,    150 * Scale, 120 * Scale),
       Word(T_MAKLUMAT,  50 * Scale,  200 * Scale),
       Word(T_ANAK,      110 * Scale, 200 * Scale) >>

WarisWordsAt300 ==
    << Word(T_MAKLUMAT,  50 * Scale,  300 * Scale),
       Word(T_WARIS,     110 * Scale, 300 * Scale),
       Word(T_ALI,       150 * Scale, 320 * Scale),
       Word(T_IBU,       150 * Scale, 340 * Scale) >>

\* A second page carrying the next-of-kin section near its top.
WarisWordsPage2 ==
    << Word(T_MAKLUMAT,  50 * Scale,  100 * Scale + 1),
       Word(T_Waris,     110 * Scale, 100 * Scale + 1),
       Word(T_SITI,      150 * Scale, 120 * Scale + 1),
       Word(T_IBU,       150 * Scale, 140 * Scale + 1) >>

ChildrenTable ==
    << <<Cell(T_NAMA), Cell(T_NO_MYKAD_MYKID), Cell(T_UMUR), Cell(T_STATUS)>>,
       <<Cell(T_ALI), Cell(T_IC1), Cell(T_12), Cell(T_PELAJAR)>>,
       <<NoCell, Cell(T_EMPTY), Cell(T_SPACE), NoCell>>,
       <<Cell(T_ABU), Cell(T_IC2), Cell(T_10), NoCell>> >>

DocMarried == Doc(<<Page(MarriedWords \o WarisWordsAt400, <<ChildrenTable>>)>>)
DocSingle == Doc(<<Page(SingleWords \o WarisWordsAt300, <<>>)>>)
DocMarriedWarisPage2 ==
    Doc(<<Page(MarriedWords, <<ChildrenTable>>), Page(WarisWordsPage2, <<>>)>>)
DocSingleWarisPage2 ==
    Doc(<<Page(SingleWords, <<>>), Page(WarisWordsPage2, <<>>)>>)
DocMarriedWarisBoth ==
    Doc(<<Page(MarriedWords \o WarisWordsAt400, <<>>), Page(WarisWordsPage2, <<>>)>>)
DocSingleNoWaris ==
    Doc(<<Page(SingleWords, <<>>), Page(<<Word(T_WARIS, 110 * Scale, 100 * Scale)>>, <<>>)>>)
DocBlank == Doc(<<Page(<<>>, <<>>)>>)
DocBrokenPage == Doc(<<BrokenPage>>)

Docs ==
    { DocMarried, DocSingle, DocMarriedWarisPage2, DocSingleWarisPage2,
      DocMarriedWarisBoth, DocSingleNoWaris, DocBlank, DocBrokenPage,
      UnreadableDoc }

\* The template documents on disk, by path. The three sets differ in what
\* the selected templates say about the marital-status box and the
\* next-of-kin header.
TemplateFileSets ==
    { (BaseTemplatePath :> TemplateBase) @@
      (WithPasanganPath :> TemplateWithPasangan) @@
      (WithoutPasanganPath :> TemplateWithoutPasangan),
      (BaseTemplatePath :> TemplateBase) @@
      (WithPasanganPath :> TemplateWithPasanganMovedStatus) @@
      (WithoutPasanganPath :> TemplateWithoutPasangan),
      (BaseTemplatePath :> TemplateBase) @@
      (WithPasanganPath :> TemplateWithPasangan) @@
      (WithoutPasanganPath :> TemplateWithoutPasanganBare) }

\* ------------------------------------- Spec: one extractor, many documents
\* STRExtractor.__init__: template_path and the base template's fields.
Init ==
    /\ template_files \in TemplateFileSets
    /\ template_path = BaseTemplatePath
    /\ fields = template_files[BaseTemplatePath]
    /\ n_docs = 0
    /\ last = NoExtraction
    /\ call = NoCall

\* extractor.extract_from_pdf(doc), as BatchProcessor.process_pdfs calls it
\* for one file after another on its single extractor.
ExtractFromPdf(doc) ==
    /\ n_docs < MaxDocs
    /\ \E out \in {ExtractOutcome(fields, template_path, template_files, doc)} :
           /\ last' = out
           /\ fields' = out.fields_after
    /\ n_docs' = n_docs + 1
    /\ UNCHANGED <<template_files, template_path, call>>

Next == \E doc \in Docs : ExtractFromPdf(doc)

Spec == Init /\ [][Next]_vars

Extracted == last.kind = "ok"

\* Case-insensitive containment of the married token.
SaysMarried(text) == In(T_KAHWIN, Upper(text))

\* The words of page 1 inside the default window of the marital-status box
\* of the template that was loaded when the extraction began.
StatusBoxText ==
    IF F_status_perkahwinan \in DOMAIN last.fields_before
    THEN ExpectedBoxText([page |-> last.doc.pages[1],
                          box |-> last.fields_before[F_status_perkahwinan],
                          y_offset |-> 0, tolerance |-> TOLERANCE_DEFAULT])
    ELSE <<>>

\* C1: the spouse-inclusive template is selected exactly when the text of the
\* marital-status box contains KAHWIN in any letter case; otherwise (other
\* text, no words, no such box in the loaded template) the spouse-free one.
C1_TemplateByMaritalStatus ==
    Extracted =>
        /\ last.status_raw = StatusBoxText
        /\ last.template_to_use =
              IF SaysMarried(StatusBoxText) THEN WithPasanganPath
              ELSE WithoutPasanganPath

\* A mixed-case "Berkahwin" selected the spouse-inclusive template.
C1_Witness ==
    /\ Extracted
    /\ last.status_raw = T_Berkahwin
    /\ last.template_to_use = WithPasanganPath

\* What an extraction reports: template choice, section offsets, field values.
Reported(out) ==
    IF out.kind = "ok"
    THEN <<out.kind, out.template_to_use, out.offsets, out.waris_exists,
           out.all_fields, out.pasangan_fields, out.waris_fields, out.children>>
    ELSE <<out.kind>>

\* C2: whatever was extracted before, a document's outcome is the outcome of
\* extracting it with a freshly constructed extractor.
C2_OutcomeDependsOnDocumentOnly ==
    (last.kind # "none") =>
        Reported(last) =
            Reported(ExtractOutcome(template_files[BaseTemplatePath], BaseTemplatePath,
                                    template_files, last.doc))

WarisLookups == {l \in last.lookups : StartsWith(l.field_name, P_waris)}

\* The waris_ fields of the template the extraction used.
WarisFieldNames == {f \in DOMAIN last.fields_after : StartsWith(f, P_waris)}

\* C5: next-of-kin detection is repeated on page 2 exactly when page 1 gave
\* "not found" and there is a second page; found on page 2, the exists flag is
\* true and every waris_ field is read from page 2 with the page-2 offset;
\* found on page 1, every waris_ field is read from page 1 and page 2 is not
\* consulted.
C5_WarisPageTwoFallback ==
    Extracted =>
        /\ last.page2_consulted <=>
              (last.waris_offset_page1.none /\ last.page_count >= 2)
        /\ (last.page2_consulted /\ ~last.waris_offset_page2.none) =>
              /\ last.waris_exists
              /\ {l.field_name : l \in WarisLookups} = WarisFieldNames
              /\ \A l \in WarisLookups :
                    /\ l.page_no = 2
                    /\ l.y_offset = last.waris_offset_page2.v
                    /\ l.result.value =
                          ExpectedBoxText([page |-> last.doc.pages[2], box |-> l.box,
                                           y_offset |-> last.waris_offset_page2.v,
                                           tolerance |-> l.tolerance])
        /\ ~last.waris_offset_page1.none =>
              /\ ~last.page2_consulted
              /\ last.waris_exists
              /\ {l.field_name : l \in WarisLookups} = WarisFieldNames
              /\ \A l \in WarisLookups :
                    /\ l.page_no = 1
                    /\ l.result.value =
                          ExpectedBoxText([page |-> last.doc.pages[1], box |-> l.box,
                                           y_offset |-> last.waris_offset_page1.v,
                                           tolerance |-> l.tolerance])

\* A two-page document whose next-of-kin section is on page 2 only: the
\* name read is the one printed on page 2, 299 units above the template.
C5_Witness ==
    /\ Extracted
    /\ last.page_count = 2
    /\ last.waris_offset_page1.none
    /\ last.page2_consulted
    /\ last.waris_offset_page2 = Some(-299)
    /\ last.waris_exists
    /\ F_nama \in DOMAIN last.waris_fields
    /\ last.waris_fields[F_nama] = T_SITI

\* The computed offset of the section a field belongs to, by its prefix.
OwnSectionOffset(field_name) ==
    LET begins(p) == /\ Len(field_name) >= Len(p)
                     /\ \A i \in 1..Len(p) : field_name[i] = p[i]
    IN  IF begins(P_waris) THEN last.offsets.waris.v
        ELSE IF begins(P_pasangan) THEN last.offsets.pasangan
        ELSE IF begins(P_anak) THEN last.offsets.anak
        ELSE last.offsets.pemohon

\* C8: every bulk-pass lookup reads its box at box.y + the computed offset of
\* the field's own section (by prefix), an offset of 0 included; none uses
\* another section's offset.
C8_LookupAtBoxPlusOwnOffset ==
    Extracted =>
        \A l \in last.lookups :
            /\ StartsWith(l.field_name, P_waris) => ~last.offsets.waris.none
            /\ l.y_offset = OwnSectionOffset(l.field_name)
            /\ l.box = last.fields_after[l.field_name]
            /\ l.result =
                  Returned(ExpectedBoxText(
                      [page |-> last.doc.pages[l.page_no], box |-> l.box,
                       y_offset |-> OwnSectionOffset(l.field_name),
                       tolerance |-> l.tolerance]))

\* An extraction whose four section offsets all differ, one of them 0, and
\* whose fields are all found at their shifted places.
C8_Witness ==
    /\ Extracted
    /\ last.offsets = [pemohon |-> 3, pasangan |-> 0, anak |-> 10, waris |-> Some(-3)]
    /\ last.all_fields[F_nama] = T_ALI
    /\ last.all_fields[F_anak_bilangan] = T_12
    /\ last.pasangan_fields[F_nama] = T_SITI
    /\ last.waris_fields[F_nama] = T_ABU

\* ------------------------------------------------------- text cleaners
\* A Python value handed to a cleaner: a str, or None for an absent field.
PyNone == [none |-> TRUE, s |-> <<>>]
PyStr(t) == [none |-> FALSE, s |-> t]

\* Falsy that lets None through to the str operations.
Falsy_EmptyStrOnly(x) == ~x.none /\ x.s = <<>>

\* `not text`: None and '' are falsy.
Falsy(x) == x.none \/ x.s = <<>>

Digits == {"0", "1", "2", "3", "4", "5", "6", "7", "8", "9"}
IsLetter(c) ==
    \E i \in 1..Len(LowerChars) : LowerChars[i] = c \/ UpperChars[i] = c

\* re.sub(r'[^\d]', '', t)
KeepDigits(t) == SelectSeq(t, LAMBDA c : c \in Digits)
\* re.sub(r'\d+', '', t)
DropDigits(t) == SelectSeq(t, LAMBDA c : c \notin Digits)
\* re.sub(r'\s+', '', t)
DropWhitespace(t) == SelectSeq(t, LAMBDA c : c \notin Whitespace)
\* re.sub(r'[^a-zA-Z\s]', '', t)
KeepLettersAndSpace(t) == SelectSeq(t, LAMBDA c : IsLetter(c) \/ c \in Whitespace)
\* ' '.join(t.split()).strip()
CollapseSpaces(t) == Strip(Join(T_SPACE, Split(t)))

T_TAHUN == <<"T","A","H","U","N">>
T_PEREMPUAN == <<"P","E","R","E","M","P","U","A","N">>
T_RM == <<"R","M">>
T_Pemohon == <<"P","e","m","o","h","o","n">>
T_Pasangan == <<"P","a","s","a","n","g","a","n">>
T_Anak == <<"A","n","a","k">>
T_COMMA == <<",">>

\* index of the first occurrence of needle in hay, 0 when there is none
FindFirst(needle, hay) ==
    IF In(needle, hay)
    THEN 1 + CHOOSE i \in 0..(Len(hay) - Len(needle)) :
                 /\ SubSeq(hay, i + 1, i + Len(needle)) = needle
                 /\ \A j \in 0..(i - 1) : SubSeq(hay, j + 1, j + Len(needle)) # needle
    ELSE 0

\* last index of the run of digits that starts at i
RECURSIVE DigitRunEnd(_, _)
DigitRunEnd(u, i) ==
    IF i < Len(u) /\ u[i + 1] \in Digits THEN DigitRunEnd(u, i + 1) ELSE i

\* first index at or after k that holds no whitespace (Len(u) + 1 at the end)
RECURSIVE SkipWhitespace(_, _)
SkipWhitespace(u, k) ==
    IF k <= Len(u) /\ u[k] \in Whitespace THEN SkipWhitespace(u, k + 1) ELSE k

\* (\d+\s*TAHUN) matched at i: the index of its last character, 0 for no match
AgeMatchEnd(u, i) ==
    IF u[i] \notin Digits THEN 0
    ELSE IF StartsWith(SubSeq(u, SkipWhitespace(u, DigitRunEnd(u, i) + 1), Len(u)), T_TAHUN)
         THEN SkipWhitespace(u, DigitRunEnd(u, i) + 1) + Len(T_TAHUN) - 1
         ELSE 0

\* re.search(r'(\d+\s*TAHUN)', u).group(1), or <<>> with found = FALSE
SearchAge(u) ==
    IF \E i \in 1..Len(u) : AgeMatchEnd(u, i) # 0
    THEN [found |-> TRUE,
          group |-> SubSeq(u,
                       CHOOSE i \in 1..Len(u) :
                           /\ AgeMatchEnd(u, i) # 0
                           /\ \A j \in 1..(i - 1) : AgeMatchEnd(u, j) = 0,
                       AgeMatchEnd(u, CHOOSE i \in 1..Len(u) :
                           /\ AgeMatchEnd(u, i) # 0
                           /\ \A j \in 1..(i - 1) : AgeMatchEnd(u, j) = 0))]
    ELSE [found |-> FALSE, group |-> <<>>]

\* The variant without re.IGNORECASE.
CutAtLabel_CaseSensitive(t, label) ==
    IF FindFirst(label, t) = 0 THEN t
    ELSE RStripSet(SubSeq(t, 1, FindFirst(label, t) - 1), Whitespace)

\* re.sub(r'\s*<label>.*$', '', t, flags=re.IGNORECASE) on a single line
CutAtLabel(t, label) ==
    IF FindFirst(Upper(label), Upper(t)) = 0 THEN t
    ELSE RStripSet(SubSeq(t, 1, FindFirst(Upper(label), Upper(t)) - 1), Whitespace)

\* re.sub(r'\s*RM\s*$', '', t, flags=re.IGNORECASE)
CutTrailingRM(t) ==
    IF EndsWith(Upper(RStripSet(t, Whitespace)), T_RM)
    THEN RStripSet(SubSeq(t, 1, Len(RStripSet(t, Whitespace)) - Len(T_RM)), Whitespace)
    ELSE t

\* text.strip().rstrip(',').strip()
TrimCommas(t) == Strip(RStripSet(Strip(t), {","}))

\* Number of digits of a MyKad number.
MYKAD_DIGITS == 12

\* mykad_text.split()[0] if mykad_text.split() else mykad_text
TextBeforeSpace(t) == IF Split(t) # <<>> THEN Split(t)[1] ELSE t

\* The slice of the identity number, keeping one digit more.
FirstTwelve_KeepsThirteen(digits_only) ==
    IF Len(digits_only) >= MYKAD_DIGITS + 1
    THEN SubSeq(digits_only, 1, MYKAD_DIGITS + 1)
    ELSE digits_only

\* digits_only[:12] if len(digits_only) >= 12 else digits_only
FirstTwelve(digits_only) ==
    IF Len(digits_only) >= MYKAD_DIGITS
    THEN SubSeq(digits_only, 1, MYKAD_DIGITS)
    ELSE digits_only

\* The gender decision that prefers LELAKI.
GenderWord_LelakiFirst(text_upper) ==
    IF In(T_LELAKI, text_upper) THEN T_LELAKI
    ELSE IF In(T_PEREMPUAN, text_upper) THEN T_PEREMPUAN
    ELSE <<>>

\* Lines 626-629: the canonical gender word found in the upper-cased text,
\* <<>> when there is none.
GenderWord(text_upper) ==
    IF In(T_PEREMPUAN, text_upper) THEN T_PEREMPUAN
    ELSE IF In(T_LELAKI, text_upper) THEN T_LELAKI
    ELSE <<>>

\* ---- the methods of STRExtractor (str_extractor.py 477-678)
clean_age_field(age_text) ==
    IF Falsy(age_text) THEN Returned(T_EMPTY)
    ELSE IF age_text.none THEN Raised
    ELSE IF SearchAge(Upper(age_text.s)).found
         THEN Returned(SearchAge(Upper(age_text.s)).group)
         ELSE Returned(age_text.s)

clean_remove_section_labels(text) ==
    IF Falsy(text) THEN Returned(T_EMPTY)
    ELSE IF text.none THEN Raised
    ELSE Returned(TrimCommas(
             CutAtLabel(CutAtLabel(CutAtLabel(CutAtLabel(text.s,
                 T_Pemohon), T_Pasangan), T_Waris), T_Anak)))

clean_postal_code(postal_text) ==
    IF Falsy(postal_text) THEN Returned(T_EMPTY)
    ELSE IF postal_text.none THEN Raised
    ELSE Returned(KeepDigits(postal_text.s))

clean_remove_numbers(text) ==
    IF Falsy(text) THEN Returned(T_EMPTY)
    ELSE IF text.none THEN Raised
    ELSE Returned(CollapseSpaces(DropDigits(text.s)))

clean_remove_whitespace(text) ==
    IF Falsy(text) THEN Returned(T_EMPTY)
    ELSE IF text.none THEN Raised
    ELSE Returned(DropWhitespace(text.s))

clean_remove_trailing_rm(text) ==
    IF Falsy(text) THEN Returned(T_EMPTY)
    ELSE IF text.none THEN Raised
    ELSE Returned(Strip(CutTrailingRM(text.s)))

clean_numbers_only(text) ==
    IF Falsy(text) THEN Returned(T_EMPTY)
    ELSE IF text.none THEN Raised
    ELSE Returned(KeepDigits(text.s))

clean_jantina_field(jantina_text) ==
    IF Falsy(jantina_text) THEN Returned(T_EMPTY)
    ELSE IF jantina_text.none THEN Raised
    ELSE IF GenderWord(Upper(jantina_text.s)) # <<>>
         THEN Returned(GenderWord(Upper(jantina_text.s)))
         ELSE Returned(CollapseSpaces(KeepLettersAndSpace(jantina_text.s)))

clean_alphabets_only(text) ==
    IF Falsy(text) THEN Returned(T_EMPTY)
    ELSE IF text.none THEN Raised
    ELSE Returned(CollapseSpaces(KeepLettersAndSpace(text.s)))

clean_mykad_number(mykad_text) ==
    IF Falsy(mykad_text) THEN Returned(T_EMPTY)
    ELSE IF mykad_text.none THEN Raised
    ELSE Returned(FirstTwelve(KeepDigits(TextBeforeSpace(mykad_text.s))))

\* ---- the functions of utils/text_cleaners.py (11-192)
tc_clean_age_field(age_text) ==
    IF Falsy(age_text) THEN Returned(T_EMPTY)
    ELSE IF age_text.none THEN Raised
    ELSE IF SearchAge(Upper(age_text.s)).found
         THEN Returned(SearchAge(Upper(age_text.s)).group)
         ELSE Returned(age_text.s)

RECURSIVE CutAtLabels(_, _)
CutAtLabels(t, labels) ==
    IF labels = <<>> THEN t
    ELSE CutAtLabels(CutAtLabel(t, Head(labels)), Tail(labels))

remove_section_labels(text) ==
    IF Falsy(text) THEN Returned(T_EMPTY)
    ELSE IF text.none THEN Raised
    ELSE Returned(TrimCommas(
             CutAtLabels(text.s, <<T_Pemohon, T_Pasangan, T_Waris, T_Anak>>)))

extract_postal_code(postal_text) ==
    IF Falsy(postal_text) THEN Returned(T_EMPTY)
    ELSE IF postal_text.none THEN Raised
    ELSE Returned(KeepDigits(postal_text.s))

remove_numbers(text) ==
    IF Falsy(text) THEN Returned(T_EMPTY)
    ELSE IF text.none THEN Raised
    ELSE Returned(CollapseSpaces(DropDigits(text.s)))

remove_whitespace(text) ==
    IF Falsy(text) THEN Returned(T_EMPTY)
    ELSE IF text.none THEN Raised
    ELSE Returned(DropWhitespace(text.s))

remove_trailing_rm(text) ==
    IF Falsy(text) THEN Returned(T_EMPTY)
    ELSE IF text.none THEN Raised
    ELSE Returned(Strip(CutTrailingRM(text.s)))

extract_numbers_only(text) ==
    IF Falsy(text) THEN Returned(T_EMPTY)
    ELSE IF text.none THEN Raised
    ELSE Returned(KeepDigits(text.s))

tc_clean_jantina_field(jantina_text) ==
    IF Falsy(jantina_text) THEN Returned(T_EMPTY)
    ELSE IF jantina_text.none THEN Raised
    ELSE IF GenderWord(Upper(jantina_text.s)) # <<>>
         THEN Returned(GenderWord(Upper(jantina_text.s)))
         ELSE Returned(CollapseSpaces(KeepLettersAndSpace(jantina_text.s)))

extract_alphabets_only(text) ==
    IF Falsy(text) THEN Returned(T_EMPTY)
    ELSE IF text.none THEN Raised
    ELSE Returned(CollapseSpaces(KeepLettersAndSpace(text.s)))

tc_clean_mykad_number(mykad_text) ==
    IF Falsy(mykad_text) THEN Returned(T_EMPTY)
    ELSE IF mykad_text.none THEN Raised
    ELSE Returned(FirstTwelve(KeepDigits(TextBeforeSpace(mykad_text.s))))

\* ------------------------------------------- SpecClean: the cleaners alone
\* Number of whitespace-separated tokens of a text handed to a cleaner.
MaxTokens == 2

T_MYKAD12 == <<"7","4","0","3","0","7","0","1","5","3","5","9">>
T_MYKAD13 == <<"7","4","0","3","0","7","0","1","5","3","5","9","1">>
T_MYKAD11 == <<"7","4","0","3","0","7","0","1","5","3","5">>
T_MYKAD_MIXED == <<"A","7","4","0","3","-","0","7","0","1","5","3","5","9","X","2">>
T_51 == <<"5","1">>
T_51tahun == <<"5","1","t","a","h","u","n">>
T_Perempuan == <<"P","e","r","e","m","p","u","a","n">>
T_abu_comma == <<"a","b","u",",">>

CleanTokenPool ==
    { T_MYKAD12, T_MYKAD13, T_MYKAD11, T_MYKAD_MIXED, T_51, T_TAHUN, T_51tahun,
      T_LELAKI, T_Perempuan, T_RM, T_Pemohon, T_abu_comma,
      T_Waris, T_ANAK, T_Pasangan }

\* Texts of up to MaxTokens tokens, bare or with a leading or trailing space.
CleanTexts ==
    LET joined == {Join(T_SPACE, ts) : ts \in SeqsUpTo(CleanTokenPool, MaxTokens)}
    IN  joined \cup {T_SPACE \o t : t \in joined} \cup {t \o T_SPACE : t \in joined}

CleanerNames ==
    { "clean_age_field", "clean_remove_section_labels", "clean_postal_code",
      "clean_remove_numbers", "clean_remove_whitespace", "clean_remove_trailing_rm",
      "clean_numbers_only", "clean_jantina_field", "clean_alphabets_only",
      "clean_mykad_number" }

CleanCall(fn, arg) ==
    [fn |-> fn, done |-> FALSE, arg |-> arg, method |-> Raised, function |-> Raised]

CleanCalls ==
    {CleanCall(fn, arg) : fn \in CleanerNames,
                          arg \in {PyNone} \cup {PyStr(t) : t \in CleanTexts}}

InitClean ==
    /\ template_files = NoFiles
    /\ template_path = <<>>
    /\ fields = <<>>
    /\ n_docs = 0
    /\ last = NoExtraction
    /\ call \in CleanCalls

\* One cleaner applied to call.arg: the method of STRExtractor and the
\* function of text_cleaners with the same job.
Cleaned(fn, method, function) ==
    /\ call.fn = fn
    /\ ~call.done
    /\ call' = [call EXCEPT !.done = TRUE, !.method = method, !.function = function]
    /\ UNCHANGED <<template_files, template_path, fields, n_docs, last>>

CallCleanAgeField ==
    Cleaned("clean_age_field", clean_age_field(call.arg), tc_clean_age_field(call.arg))
CallRemoveSectionLabels ==
    Cleaned("clean_remove_section_labels",
            clean_remove_section_labels(call.arg), remove_section_labels(call.arg))
CallPostalCode ==
    Cleaned("clean_postal_code", clean_postal_code(call.arg), extract_postal_code(call.arg))
CallRemoveNumbers ==
    Cleaned("clean_remove_numbers", clean_remove_numbers(call.arg), remove_numbers(call.arg))
CallRemoveWhitespace ==
    Cleaned("clean_remove_whitespace",
            clean_remove_whitespace(call.arg), remove_whitespace(call.arg))
CallRemoveTrailingRm ==
    Cleaned("clean_remove_trailing_rm",
            clean_remove_trailing_rm(call.arg), remove_trailing_rm(call.arg))
CallNumbersOnly ==
    Cleaned("clean_numbers_only", clean_numbers_only(call.arg), extract_numbers_only(call.arg))
CallJantinaField ==
    Cleaned("clean_jantina_field",
            clean_jantina_field(call.arg), tc_clean_jantina_field(call.arg))
CallAlphabetsOnly ==
    Cleaned("clean_alphabets_only",
            clean_alphabets_only(call.arg), extract_alphabets_only(call.arg))
CallMykadNumber ==
    Cleaned("clean_mykad_number", clean_mykad_number(call.arg), tc_clean_mykad_number(call.arg))

NextClean ==
    \/ CallCleanAgeField
    \/ CallRemoveSectionLabels
    \/ CallPostalCode
    \/ CallRemoveNumbers
    \/ CallRemoveWhitespace
    \/ CallRemoveTrailingRm
    \/ CallNumbersOnly
    \/ CallJantinaField
    \/ CallAlphabetsOnly
    \/ CallMykadNumber

SpecClean == InitClean /\ [][NextClean]_vars

CleanDone(fn) == call.fn = fn /\ call.done

\* The characters of t from its first non-blank one up to the next blank.
FirstToken(t) ==
    SubSeq(t, SkipWhitespace(t, 1),
           FirstSpace(SubSeq(t, SkipWhitespace(t, 1), Len(t))) + SkipWhitespace(t, 1) - 2)

RECURSIVE DigitsOf(_)
DigitsOf(t) ==
    IF t = <<>> THEN <<>>
    ELSE (IF Head(t) \in Digits THEN <<Head(t)>> ELSE <<>>) \o DigitsOf(Tail(t))

\* C11: clean_mykad_number keeps the digits of the first token of the text,
\* cut to the first 12 when there are 12 or more and unchanged when there
\* are fewer; the result is a digit string of at most 12 characters;
\* '740307015359 51' gives '740307015359'; the method of STRExtractor and
\* the function of text_cleaners return the same.
C11_MykadFirstTwelveDigits ==
    (CleanDone("clean_mykad_number") /\ ~call.arg.none) =>
        LET digits == DigitsOf(FirstToken(call.arg.s))
            ret == call.method
        IN  /\ ~ret.raised
            /\ call.function = ret
            /\ Len(digits) >= 12 => ret.value = SubSeq(digits, 1, 12)
            /\ Len(digits) < 12 => ret.value = digits
            /\ Len(ret.value) <= 12
            /\ \A i \in 1..Len(ret.value) : ret.value[i] \in Digits
            /\ call.arg.s = T_MYKAD12 \o T_SPACE \o T_51 => ret.value = T_MYKAD12

C11_Witness ==
    /\ CleanDone("clean_mykad_number")
    /\ call.arg = PyStr(T_MYKAD_MIXED \o T_SPACE \o T_51)
    /\ call.method = Returned(T_MYKAD12)

C13_CleanersTotal ==
    call.fn \in CleanerNames /\ call.done =>
        /\ ~call.method.raised
        /\ ~call.function.raised
        /\ (call.arg.none \/ call.arg.s = <<>>) =>
               /\ call.method.value = <<>>
               /\ call.function.value = <<>>

C13_Witness ==
    /\ CleanDone("clean_remove_trailing_rm")
    /\ call.arg = PyNone
    /\ call.method = Returned(T_EMPTY)
    /\ call.function = Returned(T_EMPTY)

\* ------------------------------------------------- dicts and structure_data
\* A dict is the sequence of its items <<key, value>> in insertion order; a
\* value is a str, a nested dict or a list.
StrV(t) == [kind |-> "str", s |-> t, items |-> <<>>]
DictV(items) == [kind |-> "dict", s |-> <<>>, items |-> items]
ListV(elems) == [kind |-> "list", s |-> <<>>, items |-> elems]

HasKey(items, k) == \E i \in 1..Len(items) : items[i][1] = k

\* d[k] for a key that is present
Item(items, k) == items[CHOOSE i \in 1..Len(items) : items[i][1] = k][2]

\* d.get(k, '') on a dict of str
Get(items, k) == IF HasKey(items, k) THEN Item(items, k).s ELSE <<>>

\* d.get(k, {}) on a dict of dicts
GetDict(items, k) == IF HasKey(items, k) THEN Item(items, k).items ELSE <<>>

\* d[k] = v: in place when k is present, appended otherwise
SetItem(items, k, v) ==
    IF HasKey(items, k)
    THEN [i \in 1..Len(items) |-> IF items[i][1] = k THEN <<k, v>> ELSE items[i]]
    ELSE Append(items, <<k, v>>)

\* Lines 685-693: the address parts that are not empty, in order.
AddressParts(pemohon_fields) ==
    (IF Get(pemohon_fields, <<"a","l","a","m","a","t","_","s","u","r","a","t">>) # <<>>
     THEN <<Get(pemohon_fields, <<"a","l","a","m","a","t","_","s","u","r","a","t">>)>> ELSE <<>>) \o
    (IF Get(pemohon_fields, <<"p","o","s","k","o","d">>) # <<>>
     THEN <<Get(pemohon_fields, <<"p","o","s","k","o","d">>)>> ELSE <<>>) \o
    (IF Get(pemohon_fields, <<"b","a","n","d","a","r","_","d","a","e","r","a","h">>) # <<>>
     THEN <<Get(pemohon_fields, <<"b","a","n","d","a","r","_","d","a","e","r","a","h">>)>> ELSE <<>>) \o
    (IF Get(pemohon_fields, <<"n","e","g","e","r","i">>) # <<>>
     THEN <<Get(pemohon_fields, <<"n","e","g","e","r","i">>)>> ELSE <<>>)

\* Lines 695-697
FullAddress(pemohon_fields) ==
    clean_remove_section_labels(PyStr(Join(<<","," ">>, AddressParts(pemohon_fields)))).value

\* datetime.now().isoformat(): some timestamp text.
ExtractionDate == <<"2","0","2","4","-","0","1","-","0","1","T","0","0",":","0","0",":","0","0">>

\* Lines 699-747; each cleaner is given a str, so it returns.
structure_data(pemohon_fields, pasangan_fields, waris_fields, children) ==
    << <<<<"d","o","c","u","m","e","n","t","_","i","n","f","o">>, DictV(<<
           <<<<"t","y","p","e">>, StrV(<<"S","u","m","b","a","n","g","a","n"," ","T","u","n","a","i"," ","R","a","h","m","a","h"," ","(","S","T","R",")">>)>>,
           <<<<"t","a","r","i","k","h","_","c","e","t","a","k">>, StrV(Get(pemohon_fields, <<"t","a","r","i","k","h","_","c","e","t","a","k">>))>>,
           <<<<"e","x","t","r","a","c","t","i","o","n","_","d","a","t","e">>, StrV(ExtractionDate)>>,
           <<<<"e","x","t","r","a","c","t","i","o","n","_","v","e","r","s","i","o","n">>, StrV(<<"v","3",".","0","-","t","e","m","p","l","a","t","e","-","b","a","s","e","d">>)>> >>)>>,
       <<<<"p","e","m","o","h","o","n">>, DictV(<<
           <<<<"n","a","m","a">>, StrV(Get(pemohon_fields, <<"n","a","m","a">>))>>,
           <<<<"n","o","_","m","y","k","a","d">>, StrV(clean_mykad_number(PyStr(Get(pemohon_fields, <<"n","o","_","m","y","k","a","d">>))).value)>>,
           <<<<"u","m","u","r">>, StrV(clean_age_field(PyStr(Get(pemohon_fields, <<"u","m","u","r">>))).value)>>,
           <<<<"j","a","n","t","i","n","a">>, StrV(clean_jantina_field(PyStr(Get(pemohon_fields, <<"j","a","n","t","i","n","a">>))).value)>>,
           <<<<"a","l","a","m","a","t">>, StrV(FullAddress(pemohon_fields))>>,
           <<<<"p","o","s","k","o","d">>, StrV(clean_postal_code(PyStr(Get(pemohon_fields, <<"p","o","s","k","o","d">>))).value)>>,
           <<<<"b","a","n","d","a","r","_","d","a","e","r","a","h">>, StrV(clean_remove_numbers(PyStr(Get(pemohon_fields, <<"b","a","n","d","a","r","_","d","a","e","r","a","h">>))).value)>>,
           <<<<"n","e","g","e","r","i">>, StrV(clean_remove_section_labels(PyStr(Get(pemohon_fields, <<"n","e","g","e","r","i">>))).value)>>,
           <<<<"t","e","l","e","f","o","n","_","b","i","m","b","i","t">>, StrV(Get(pemohon_fields, <<"n","o","_","t","e","l","e","f","o","n","_","b","i","m","b","i","t">>))>>,
           <<<<"t","e","l","e","f","o","n","_","r","u","m","a","h">>, StrV(Get(pemohon_fields, <<"n","o","_","t","e","l","e","f","o","n","_","r","u","m","a","h">>))>>,
           <<<<"e","m","a","i","l">>, StrV(clean_remove_whitespace(PyStr(Get(pemohon_fields, <<"a","l","a","m","a","t","_","e","m","e","l">>))).value)>>,
           <<<<"p","e","k","e","r","j","a","a","n">>, StrV(clean_remove_trailing_rm(PyStr(Get(pemohon_fields, <<"p","e","k","e","r","j","a","a","n">>))).value)>>,
           <<<<"p","e","n","d","a","p","a","t","a","n","_","b","u","l","a","n","a","n">>, StrV(Get(pemohon_fields, <<"p","e","n","d","a","p","a","t","a","n","_","k","a","s","a","r">>))>>,
           <<<<"s","t","a","t","u","s","_","p","e","r","k","a","h","w","i","n","a","n">>, StrV(Get(pemohon_fields, <<"s","t","a","t","u","s","_","p","e","r","k","a","h","w","i","n","a","n">>))>>,
           <<<<"t","a","r","i","k","h","_","p","e","r","k","a","h","w","i","n","a","n">>, StrV(Get(pemohon_fields, <<"t","a","r","i","k","h","_","p","e","r","k","a","h","w","i","n","a","n">>))>>,
           <<<<"b","a","n","k">>, DictV(<<
               <<<<"n","a","m","a","_","b","a","n","k">>, StrV(Get(pemohon_fields, <<"n","a","m","a","_","b","a","n","k">>))>>,
               <<<<"n","o","_","a","k","a","u","n">>, StrV(Get(pemohon_fields, <<"n","o","_","a","k","a","u","n","_","b","a","n","k">>))>> >>)>> >>)>>,
       <<<<"p","a","s","a","n","g","a","n">>, DictV(<<
           <<<<"n","a","m","a">>, StrV(Get(pasangan_fields, <<"n","a","m","a">>))>>,
           <<<<"n","o","_","m","y","k","a","d">>, StrV(Get(pasangan_fields, <<"n","o","_","m","y","k","a","d">>))>>,
           <<<<"t","e","l","e","f","o","n">>, StrV(clean_numbers_only(PyStr(Get(pasangan_fields, <<"n","o","_","t","e","l","e","f","o","n">>))).value)>>,
           <<<<"j","a","n","t","i","n","a">>, StrV(clean_jantina_field(PyStr(Get(pasangan_fields, <<"j","a","n","t","i","n","a">>))).value)>>,
           <<<<"p","e","k","e","r","j","a","a","n">>, StrV(clean_remove_section_labels(PyStr(Get(pasangan_fields, <<"p","e","k","e","r","j","a","a","n">>))).value)>>,
           <<<<"b","a","n","k">>, DictV(<<
               <<<<"n","a","m","a","_","b","a","n","k">>, StrV(Get(pasangan_fields, <<"n","a","m","a","_","b","a","n","k">>))>>,
               <<<<"n","o","_","a","k","a","u","n">>, StrV(Get(pasangan_fields, <<"n","o","_","a","k","a","u","n","_","b","a","n","k">>))>> >>)>> >>)>>,
       <<<<"a","n","a","k","_","a","n","a","k">>, ListV(children)>>,
       <<<<"w","a","r","i","s">>, DictV(<<
           <<<<"h","u","b","u","n","g","a","n">>, StrV(clean_alphabets_only(PyStr(Get(waris_fields, <<"h","u","b","u","n","g","a","n">>))).value)>>,
           <<<<"n","o","_","p","e","n","g","e","n","a","l","a","n">>, StrV(clean_numbers_only(PyStr(Get(waris_fields, <<"n","o","_","p","e","n","g","e","n","a","l","a","n">>))).value)>>,
           <<<<"n","a","m","a">>, StrV(clean_alphabets_only(PyStr(Get(waris_fields, <<"n","a","m","a">>))).value)>>,
           <<<<"t","e","l","e","f","o","n">>, StrV(clean_numbers_only(PyStr(Get(waris_fields, <<"n","o","_","t","e","l","e","f","o","n">>))).value)>> >>)>> >>

\* ---- utils/text_cleaners.py 195-226
\* STATE_VARIATIONS of config/constants.py, in dict order.
STATE_VARIATIONS ==
    << <<<<"W",".","P",".">>, <<<<"W","I","L","A","Y","A","H"," ","P","E","R","S","E","K","U","T","U","A","N">>, <<"W","P">>, <<"W",".","P",".">>, <<"W",".","P">>>> >>,
       <<<<"W","I","L","A","Y","A","H"," ","P","E","R","S","E","K","U","T","U","A","N">>, <<<<"W",".","P",".">>, <<"W","P">>, <<"W","I","L","A","Y","A","H"," ","P","E","R","S","E","K","U","T","U","A","N">>>> >>,
       <<<<"K","U","A","L","A"," ","L","U","M","P","U","R">>, <<<<"K","L">>, <<"K",".","L",".">>, <<"K","U","A","L","A"," ","L","U","M","P","U","R">>>> >>,
       <<<<"S","E","L","A","N","G","O","R">>, <<<<"S","E","L","A","N","G","O","R">>, <<"S","E","L">>>> >>,
       <<<<"P","U","L","A","U"," ","P","I","N","A","N","G">>, <<<<"P","U","L","A","U"," ","P","I","N","A","N","G">>, <<"P","E","N","A","N","G">>, <<"P",".","P","I","N","A","N","G">>>> >>,
       <<<<"J","O","H","O","R">>, <<<<"J","O","H","O","R">>, <<"J","H","R">>>> >>,
       <<<<"M","E","L","A","K","A">>, <<<<"M","E","L","A","K","A">>, <<"M","A","L","A","C","C","A">>, <<"M","L","K">>>> >> >>

WordSet(t) == {Split(t)[i] : i \in 1..Len(Split(t))}

\* Lines 221-226 on the normalized texts
WordOverlapHalf(state_normalized, address_upper) ==
    2 * Cardinality(WordSet(state_normalized) \cap WordSet(address_upper))
        >= Cardinality(WordSet(state_normalized))

\* Lines 208-226 on the normalized texts
StateMatches(state_normalized, address_upper) ==
    \/ In(state_normalized, address_upper)
    \/ \E i \in 1..Len(STATE_VARIATIONS) :
           /\ In(STATE_VARIATIONS[i][1], state_normalized)
           /\ \E j \in 1..Len(STATE_VARIATIONS[i][2]) :
                  In(STATE_VARIATIONS[i][2][j], address_upper)
    \/ WordOverlapHalf(state_normalized, address_upper)

is_state_in_address(state, address) ==
    IF state = <<>> \/ address = <<>> THEN FALSE
    ELSE StateMatches(Join(T_SPACE, Split(Upper(state))),
                      Join(T_SPACE, Split(Upper(address))))

\* ------------------------------------------------------ the projections
\* The value of the last item of a list of items that has key k
LastValue(items, k) ==
    items[CHOOSE i \in 1..Len(items) :
              items[i][1] = k /\ \A j \in (i + 1)..Len(items) : items[j][1] # k][2]

\* The positions at which a key appears for the first time
FirstPositions(items) ==
    SelectSeq([i \in 1..Len(items) |-> i],
              LAMBDA i : \A j \in 1..(i - 1) : items[j][1] # items[i][1])

\* The keys at these positions, each with its last value
DictAt(items, positions) ==
    [n \in 1..Len(positions) |->
        <<items[positions[n]][1], LastValue(items, items[positions[n]][1])>>]

\* dict(items): a later item with the same key replaces the value in place
DictOf(items) == DictAt(items, FirstPositions(items))

\* Lines 751-757: the items list built by flatten_dict
RECURSIVE FlatItems(_, _)
FlatItems(items, parent_key) ==
    IF items = <<>> THEN <<>>
    ELSE (IF Head(items)[2].kind = "dict"
          THEN FlatItems(Head(items)[2].items,
                         IF parent_key # <<>> THEN parent_key \o <<"_">> \o Head(items)[1]
                         ELSE Head(items)[1])
          ELSE << <<IF parent_key # <<>> THEN parent_key \o <<"_">> \o Head(items)[1]
                    ELSE Head(items)[1],
                    Head(items)[2].s>> >>)
         \o FlatItems(Tail(items), parent_key)

\* Lines 749-758, called with the default parent_key; values are str.
flatten_dict(d) == DictOf(FlatItems(d, <<>>))

DigitChars == <<"0", "1", "2", "3", "4", "5", "6", "7", "8", "9">>

\* str(i) of a non-negative int, as f-strings format it
RECURSIVE Dec(_)
Dec(i) ==
    IF i < 10 THEN <<DigitChars[i + 1]>>
    ELSE Dec(i \div 10) \o <<DigitChars[(i % 10) + 1]>>

\* f"{prefix}{key} :- {value}" for each item
PrefixedLines(prefix, flat) ==
    [i \in 1..Len(flat) |-> prefix \o flat[i][1] \o <<" ",":","-"," ">> \o flat[i][2]]

\* Lines 808-810 / 851-853: the items anak_{i}_{key} of a list of children
RECURSIVE ChildItems(_, _)
ChildItems(children, i) ==
    IF i > Len(children) THEN <<>>
    ELSE [j \in 1..Len(children[i]) |->
             <<<<"a","n","a","k","_">> \o Dec(i) \o <<"_">> \o children[i][j][1], children[i][j][2]>>]
         \o ChildItems(children, i + 1)

\* data['anak_anak'] when the key is present and the list is not empty
ChildrenIn(data) ==
    IF HasKey(data, <<"a","n","a","k","_","a","n","a","k">>) THEN Item(data, <<"a","n","a","k","_","a","n","a","k">>).items ELSE <<>>

\* Lines 770-783: the thirteen numbered lines and the rule under them
HeadlineLines(pemohon, pasangan, waris) ==
    << <<"(","1",")"," ","N","A","M","E"," ",":","-"," ">> \o Get(pemohon, <<"n","a","m","a">>),
       <<"(","2",")"," ","I","C"," ",":","-"," ">> \o Get(pemohon, <<"n","o","_","m","y","k","a","d">>),
       <<"(","3",")"," ","P","H","1"," ",":","-"," ">> \o Get(pemohon, <<"t","e","l","e","f","o","n","_","b","i","m","b","i","t">>),
       <<"(","4",")"," ","P","H","2"," ",":","-"," ">> \o Get(pemohon, <<"t","e","l","e","f","o","n","_","r","u","m","a","h">>),
       <<"(","5",")"," ","A","D","D","R","E","S","S"," ",":","-"," ">> \o Get(pemohon, <<"a","l","a","m","a","t">>),
       <<"(","6",")"," ","S","P","O","U","S","E"," ","I","C"," ",":","-"," ">> \o Get(pasangan, <<"n","o","_","m","y","k","a","d">>),
       <<"(","7",")"," ","S","P","O","U","S","E"," ","N","A","M","E"," ",":","-"," ">> \o Get(pasangan, <<"n","a","m","a">>),
       <<"(","8",")"," ","S","P","O","U","S","E"," ","P","H"," ",":","-"," ">> \o Get(pasangan, <<"t","e","l","e","f","o","n">>),
       <<"(","9",")"," ","R","E","L","A","T","I","O","N"," ",":","-"," ">> \o Get(waris, <<"h","u","b","u","n","g","a","n">>),
       <<"(","1","0",")"," ","R","E","L","-","I","C"," ",":","-"," ">> \o Get(waris, <<"n","o","_","p","e","n","g","e","n","a","l","a","n">>),
       <<"(","1","1",")"," ","R","E","L","-","N","A","M","E"," ",":","-"," ">> \o Get(waris, <<"n","a","m","a">>),
       <<"(","1","2",")"," ","R","E","L","-","P","H","1"," ",":","-"," ">> \o Get(waris, <<"t","e","l","e","f","o","n">>),
       <<"(","1","3",")"," ","E","M","A","I","L"," ",":","-"," ">> \o Get(pemohon, <<"e","m","a","i","l">>),
       <<"-","-","-","-","-","-","-","-","-","-","-","-","-","-","-","-","-","-","-","-","-","-","-","-","-","-","-","-">> >>

\* Lines 786-804: one role's flattened fields and the rule under them
RoleLines(data, role, prefix) ==
    (IF HasKey(data, role) THEN PrefixedLines(prefix, flatten_dict(Item(data, role).items))
     ELSE <<>>)
    \o <<<<"-","-","-","-","-","-","-","-","-","-","-","-","-","-","-","-","-","-">>>>

\* Lines 806-810: every child of the record
ChildLines(data) == PrefixedLines(<<>>, ChildItems(ChildrenIn(data), 1))

DetailLines(data) ==
    HeadlineLines(GetDict(data, <<"p","e","m","o","h","o","n">>), GetDict(data, <<"p","a","s","a","n","g","a","n">>), GetDict(data, <<"w","a","r","i","s">>))
    \o RoleLines(data, <<"p","e","m","o","h","o","n">>, <<"p","e","m","o","h","o","n","_">>)
    \o RoleLines(data, <<"p","a","s","a","n","g","a","n">>, <<"p","a","s","a","n","g","a","n","_">>)
    \o RoleLines(data, <<"w","a","r","i","s">>, <<"w","a","r","i","s","_">>)
    \o ChildLines(data)

T_NEWLINE == <<"\n">>

\* Lines 760-812
format_details_column(data) == Join(T_NEWLINE, DetailLines(data))

\* Maximum number of children given columns.
MAX_CHILDREN == 10

\* data['anak_anak'][:10]
FirstTen(children) ==
    IF Len(children) > MAX_CHILDREN THEN SubSeq(children, 1, MAX_CHILDREN) ELSE children

\* row_data[k] = v for each item, in order
SetItems(row_data, items) == DictOf(row_data \o items)

\* f'{prefix}{key}' for each item of a role's flattened dict
PrefixedItems(prefix, flat) ==
    [i \in 1..Len(flat) |-> <<prefix \o flat[i][1], flat[i][2]>>]

\* Lines 827-841: the columns of one role, when the record has it
RoleItems(data, role, prefix) ==
    IF HasKey(data, role) THEN PrefixedItems(prefix, flatten_dict(Item(data, role).items))
    ELSE <<>>

\* Lines 843-847
DocumentItems(data) ==
    SelectSeq(RoleItems(data, <<"d","o","c","u","m","e","n","t","_","i","n","f","o">>, <<"d","o","c","u","m","e","n","t","_">>),
              LAMBDA it : it[1] \notin {<<"d","o","c","u","m","e","n","t","_","e","x","t","r","a","c","t","i","o","n","_","d","a","t","e">>,
                                       <<"d","o","c","u","m","e","n","t","_","e","x","t","r","a","c","t","i","o","n","_","v","e","r","s","i","o","n">>})

\* Lines 814-855
to_excel_row(data) ==
    SetItems(<< <<<<"C","a","r","d"," ","N","u","m","b","e","r">>, <<>> >>, <<<<"D","e","t","a","i","l","s">>, format_details_column(data)>> >>,
             RoleItems(data, <<"p","e","m","o","h","o","n">>, <<"p","e","m","o","h","o","n","_">>)
             \o RoleItems(data, <<"p","a","s","a","n","g","a","n">>, <<"p","a","s","a","n","g","a","n","_">>)
             \o RoleItems(data, <<"w","a","r","i","s">>, <<"w","a","r","i","s","_">>)
             \o DocumentItems(data)
             \o ChildItems(FirstTen(ChildrenIn(data)), 1))

\* to_excel_row_minimal with PH1 taken from the home number.
MinimalItems_HomeAsPh1(pemohon, pasangan, waris, details) ==
    << <<<<"I","C">>, Get(pemohon, <<"n","o","_","m","y","k","a","d">>)>>,
       <<<<"C","a","r","d"," ","N","u","m","b","e","r">>, <<>> >>,
       <<<<"D","e","t","a","i","l","s">>, details>>,
       <<<<"N","A","M","E">>, Get(pemohon, <<"n","a","m","a">>)>>,
       <<<<"P","H","1">>, Get(pemohon, <<"t","e","l","e","f","o","n","_","r","u","m","a","h">>)>>,
       <<<<"P","H","2">>, Get(pemohon, <<"t","e","l","e","f","o","n","_","r","u","m","a","h">>)>>,
       <<<<"A","D","D","R","E","S","S">>, Get(pemohon, <<"a","l","a","m","a","t">>)>>,
       <<<<"S","P","O","U","S","E"," ","I","C">>, Get(pasangan, <<"n","o","_","m","y","k","a","d">>)>>,
       <<<<"S","P","O","U","S","E"," ","N","A","M","E">>, Get(pasangan, <<"n","a","m","a">>)>>,
       <<<<"S","P","O","U","S","E"," ","P","H">>, Get(pasangan, <<"t","e","l","e","f","o","n">>)>>,
       <<<<"R","E","L","A","T","I","O","N">>, Get(waris, <<"h","u","b","u","n","g","a","n">>)>>,
       <<<<"R","E","L","-","I","C">>, Get(waris, <<"n","o","_","p","e","n","g","e","n","a","l","a","n">>)>>,
       <<<<"R","E","L","-","N","A","M","E">>, Get(waris, <<"n","a","m","a">>)>>,
       <<<<"R","E","L","-","P","H","1">>, Get(waris, <<"t","e","l","e","f","o","n">>)>>,
       <<<<"E","M","A","I","L">>, Get(pemohon, <<"e","m","a","i","l">>)>> >>

\* Lines 863-879: the dict literal returned by to_excel_row_minimal
MinimalItems(pemohon, pasangan, waris, details) ==
    << <<<<"I","C">>, Get(pemohon, <<"n","o","_","m","y","k","a","d">>)>>,
       <<<<"C","a","r","d"," ","N","u","m","b","e","r">>, <<>> >>,
       <<<<"D","e","t","a","i","l","s">>, details>>,
       <<<<"N","A","M","E">>, Get(pemohon, <<"n","a","m","a">>)>>,
       <<<<"P","H","1">>, Get(pemohon, <<"t","e","l","e","f","o","n","_","b","i","m","b","i","t">>)>>,
       <<<<"P","H","2">>, Get(pemohon, <<"t","e","l","e","f","o","n","_","r","u","m","a","h">>)>>,
       <<<<"A","D","D","R","E","S","S">>, Get(pemohon, <<"a","l","a","m","a","t">>)>>,
       <<<<"S","P","O","U","S","E"," ","I","C">>, Get(pasangan, <<"n","o","_","m","y","k","a","d">>)>>,
       <<<<"S","P","O","U","S","E"," ","N","A","M","E">>, Get(pasangan, <<"n","a","m","a">>)>>,
       <<<<"S","P","O","U","S","E"," ","P","H">>, Get(pasangan, <<"t","e","l","e","f","o","n">>)>>,
       <<<<"R","E","L","A","T","I","O","N">>, Get(waris, <<"h","u","b","u","n","g","a","n">>)>>,
       <<<<"R","E","L","-","I","C">>, Get(waris, <<"n","o","_","p","e","n","g","e","n","a","l","a","n">>)>>,
       <<<<"R","E","L","-","N","A","M","E">>, Get(waris, <<"n","a","m","a">>)>>,
       <<<<"R","E","L","-","P","H","1">>, Get(waris, <<"t","e","l","e","f","o","n">>)>>,
       <<<<"E","M","A","I","L">>, Get(pemohon, <<"e","m","a","i","l">>)>> >>

\* Lines 857-879
to_excel_row_minimal(data) ==
    DictOf(MinimalItems(GetDict(data, <<"p","e","m","o","h","o","n">>), GetDict(data, <<"p","a","s","a","n","g","a","n">>),
                        GetDict(data, <<"w","a","r","i","s">>), format_details_column(data)))

\* ------------------------------- BatchProcessor.combine_to_excel (74-143)
\* Lines 78-87: one row per record, with its source_file column.
RowsOf(all_data, mode) ==
    [i \in 1..Len(all_data) |->
        SetItem(IF mode = "minimal" THEN to_excel_row_minimal(all_data[i])
                ELSE to_excel_row(all_data[i]),
                <<"s","o","u","r","c","e","_","f","i","l","e">>, Get(all_data[i], <<"_","s","o","u","r","c","e","_","f","i","l","e">>))]

\* pd.DataFrame(rows).columns: the keys of the rows in order of first
\* appearance.
RECURSIVE ColumnsOf(_)
ColumnsOf(rows) ==
    IF rows = <<>> THEN <<>>
    ELSE ColumnsOf(SubSeq(rows, 1, Len(rows) - 1)) \o
         SelectSeq([j \in 1..Len(rows[Len(rows)]) |-> rows[Len(rows)][j][1]],
                   LAMBDA c : \A r \in 1..(Len(rows) - 1) : ~HasKey(rows[r], c))

Contains(cols, c) == \E i \in 1..Len(cols) : cols[i] = c

\* Lines 97-99
OrderedMinimal(all_columns) ==
    <<<<"I","C">>, <<"C","a","r","d"," ","N","u","m","b","e","r">>, <<"D","e","t","a","i","l","s">>>> \o
    SelectSeq(all_columns, LAMBDA c : c \notin {<<"I","C">>, <<"C","a","r","d"," ","N","u","m","b","e","r">>, <<"D","e","t","a","i","l","s">>})

\* Lines 106-114
FirstCols(all_columns) ==
    (IF Contains(all_columns, <<"p","e","m","o","h","o","n","_","n","o","_","m","y","k","a","d">>) THEN <<<<"p","e","m","o","h","o","n","_","n","o","_","m","y","k","a","d">>>> ELSE <<>>) \o
    (IF Contains(all_columns, <<"C","a","r","d"," ","N","u","m","b","e","r">>) THEN <<<<"C","a","r","d"," ","N","u","m","b","e","r">>>> ELSE <<>>) \o
    (IF Contains(all_columns, <<"M","i","n","i","m","a","l"," ","D","e","t","a","i","l">>) THEN <<<<"M","i","n","i","m","a","l"," ","D","e","t","a","i","l">>>> ELSE <<>>) \o
    (IF Contains(all_columns, <<"D","e","t","a","i","l","s">>) THEN <<<<"D","e","t","a","i","l","s">>>> ELSE <<>>)

\* Line 102
DocumentCols(all_columns) ==
    SelectSeq(all_columns, LAMBDA c : StartsWith(c, <<"d","o","c","u","m","e","n","t","_">>))

\* Lines 117-120
DataCols(all_columns) ==
    SelectSeq(all_columns,
              LAMBDA c : /\ ~Contains(DocumentCols(all_columns), c)
                         /\ c # <<"s","o","u","r","c","e","_","f","i","l","e">>
                         /\ ~Contains(FirstCols(all_columns), c))

\* Lines 102-123
OrderedEverything(all_columns) ==
    FirstCols(all_columns) \o DataCols(all_columns) \o DocumentCols(all_columns) \o
    (IF Contains(all_columns, <<"s","o","u","r","c","e","_","f","i","l","e">>) THEN <<<<"s","o","u","r","c","e","_","f","i","l","e">>>> ELSE <<>>)

\* Lines 95-123
OrderedColumns(all_columns, mode) ==
    IF mode = "minimal" THEN OrderedMinimal(all_columns) ELSE OrderedEverything(all_columns)

\* Lines 128-131
StringColumnPatterns ==
    {<<"I","C">>, <<"P","H">>, <<"n","o","_","m","y","k","a","d">>, <<"n","o","_","m","y","k","i","d">>, <<"t","e","l","e","f","o","n">>, <<"p","o","s","k","o","d">>, <<"n","o","_","a","k","a","u","n">>,
     <<"n","o","_","p","e","n","g","e","n","a","l","a","n">>}

NaN == [nan |-> TRUE, s |-> <<>>]
CellOf(t) == [nan |-> FALSE, s |-> t]

\* Lines 125-138: the cell of a row under a column; a row without the column
\* holds NaN, which a string column turns into '' (as it does the text 'nan').
CellAt(row, col) ==
    IF \E p \in StringColumnPatterns : In(p, col)
    THEN (IF ~HasKey(row, col) \/ Item(row, col) = <<"n","a","n">> THEN CellOf(<<>>)
          ELSE CellOf(Item(row, col)))
    ELSE (IF HasKey(row, col) THEN CellOf(Item(row, col)) ELSE NaN)

SheetOf(rows, columns) ==
    [columns |-> columns,
     cells |-> [r \in 1..Len(rows) |-> [c \in 1..Len(columns) |-> CellAt(rows[r], columns[c])]],
     written |-> Len(rows)]

combine_to_excel(all_data, mode) ==
    SheetOf(RowsOf(all_data, mode), OrderedColumns(ColumnsOf(RowsOf(all_data, mode)), mode))

\* ------------------------- SpecRecord: from extracted fields to the sheet
\* Number of children of a record.
MaxKids == 11

\* The item for key k with each text of S, or no item at all.
Opt(k, S) == {<<>>} \cup {<< <<k, StrV(t)>> >> : t \in S}

PemohonCommon ==
    << <<<<"n","a","m","a">>, StrV(<<"A","L","I">>)>>,
       <<<<"n","o","_","m","y","k","a","d">>, StrV(<<"7","4","0","3","0","7","0","1","5","3","5","9"," ","5","1">>)>>,
       <<<<"u","m","u","r">>, StrV(<<"5","1"," ","T","A","H","U","N"," ","L","E","L","A","K","I">>)>>,
       <<<<"j","a","n","t","i","n","a">>, StrV(<<"L","E","L","A","K","I"," ","2">>)>>,
       <<<<"n","o","_","t","e","l","e","f","o","n","_","b","i","m","b","i","t">>, StrV(<<"0","1","2","3">>)>>,
       <<<<"n","o","_","t","e","l","e","f","o","n","_","r","u","m","a","h">>, StrV(<<"0","3","4">>)>>,
       <<<<"a","l","a","m","a","t","_","e","m","e","l">>, StrV(<<"a"," ","l","i","@","g"," ","m","a","i","l",".","c","o","m">>)>>,
       <<<<"t","a","r","i","k","h","_","c","e","t","a","k">>, StrV(<<"0","1","/","0","1","/","2","0","2","4">>)>> >>

PemohonFieldSets ==
    {PemohonCommon \o a \o p \o b \o n :
        a \in Opt(<<"a","l","a","m","a","t","_","s","u","r","a","t">>, {<<"1","2"," ","J","A","L","A","N"," ","A">>, <<"1","2"," ","J","A","L","A","N"," ","A"," ","5","0","0","0","0"," ","K","U","A","L","A"," ","L","U","M","P","U","R"," ","W","P">>}),
        p \in Opt(<<"p","o","s","k","o","d">>, {<<"5","0","0","0","0">>}),
        b \in Opt(<<"b","a","n","d","a","r","_","d","a","e","r","a","h">>, {<<"K","U","A","L","A"," ","L","U","M","P","U","R">>}),
        n \in Opt(<<"n","e","g","e","r","i">>, {<<"W",".","P","."," ","K","U","A","L","A"," ","L","U","M","P","U","R">>})}

PasanganFieldSets ==
    { <<>>,
      << <<<<"n","a","m","a">>, StrV(<<"S","I","T","I">>)>>,
         <<<<"n","o","_","m","y","k","a","d">>, StrV(<<"8","0","0","1","0","1","0","1","5","3","5","8">>)>>,
         <<<<"n","o","_","t","e","l","e","f","o","n">>, StrV(<<"0","1","2","-","9","9">>)>> >> }

WarisFieldSets ==
    { <<>>,
      << <<<<"h","u","b","u","n","g","a","n">>, StrV(<<"I","B","U"," ","1">>)>>,
         <<<<"n","o","_","p","e","n","g","e","n","a","l","a","n">>, StrV(<<"5","0","0","1","0","1","-","0","1","-","5","0","0","0">>)>>,
         <<<<"n","a","m","a">>, StrV(<<"A","B","U">>)>>,
         <<<<"n","o","_","t","e","l","e","f","o","n">>, StrV(<<"0","1","7","7">>)>> >> }

\* n children, the i-th named ANAKi and i years old.
Kids(n) ==
    [i \in 1..n |-> << <<<<"n","a","m","a">>, <<"A","N","A","K">> \o Dec(i)>>, <<<<"u","m","u","r">>, Dec(i)>> >>]

\* A record of another file of the same batch, with one child.
OtherRecord ==
    SetItem(structure_data(PemohonCommon, <<>>, <<>>, Kids(1)),
            <<"_","s","o","u","r","c","e","_","f","i","l","e">>, StrV(<<"b",".","p","d","f">>))

RecordCall(pemohon_fields, pasangan_fields, waris_fields, children) ==
    [fn |-> "record", done |-> FALSE, step |-> "extracted",
     pemohon_fields |-> pemohon_fields, pasangan_fields |-> pasangan_fields,
     waris_fields |-> waris_fields, children |-> children,
     data |-> <<>>, mode |-> "", all_data |-> <<>>, row |-> <<>>,
     sheet |-> SheetOf(<<>>, <<>>)]

\* No child, one, as many as are given columns, and more.
KidCounts == {0, 1, MAX_CHILDREN, MaxKids}

RecordCalls ==
    {RecordCall(pf, sf, wf, Kids(n)) :
        pf \in PemohonFieldSets, sf \in PasanganFieldSets, wf \in WarisFieldSets,
        n \in KidCounts}

InitRecord ==
    /\ template_files = NoFiles
    /\ template_path = <<>>
    /\ fields = <<>>
    /\ n_docs = 0
    /\ last = NoExtraction
    /\ call \in RecordCalls

\* Line 475 of extract_from_pdf: the extracted groups become the record.
CallStructureData ==
    /\ call.fn = "record" /\ call.step = "extracted"
    /\ call' = [call EXCEPT
                   !.step = "structured",
                   !.data = structure_data(call.pemohon_fields, call.pasangan_fields,
                                           call.waris_fields, call.children)]
    /\ UNCHANGED <<template_files, template_path, fields, n_docs, last>>

CallToExcelRow ==
    /\ call.fn = "record" /\ call.step = "structured"
    /\ call' = [call EXCEPT !.step = "row", !.done = TRUE,
                            !.row = to_excel_row(call.data)]
    /\ UNCHANGED <<template_files, template_path, fields, n_docs, last>>

CallToExcelRowMinimal ==
    /\ call.fn = "record" /\ call.step = "structured"
    /\ call' = [call EXCEPT !.step = "row_minimal", !.done = TRUE,
                            !.row = to_excel_row_minimal(call.data)]
    /\ UNCHANGED <<template_files, template_path, fields, n_docs, last>>

\* process_pdfs tags the record with its file name (line 55); the batch is
\* this record alone or followed by another one.
CallCombineToExcel(mode, others) ==
    /\ call.fn = "record" /\ call.step = "structured"
    /\ \E all_data \in {<<SetItem(call.data, <<"_","s","o","u","r","c","e","_","f","i","l","e">>, StrV(<<"a",".","p","d","f">>))>> \o others} :
           call' = [call EXCEPT !.step = "sheet", !.done = TRUE, !.mode = mode,
                                !.all_data = all_data,
                                !.sheet = combine_to_excel(all_data, mode)]
    /\ UNCHANGED <<template_files, template_path, fields, n_docs, last>>

NextRecord ==
    \/ CallStructureData
    \/ CallToExcelRow
    \/ CallToExcelRowMinimal
    \/ \E mode \in {"everything", "minimal"}, others \in {<<>>, <<OtherRecord>>} :
           CallCombineToExcel(mode, others)

SpecRecord == InitRecord /\ [][NextRecord]_vars

\* ------------------------------------------- properties of the record
\* The pemohon group of the structured record.
PemohonOf(data) == GetDict(data, <<"p","e","m","o","h","o","n">>)

\* The number of places at which needle occurs in hay.
CountOf(needle, hay) ==
    Cardinality({i \in 0..(Len(hay) - Len(needle)) :
                    SubSeq(hay, i + 1, i + Len(needle)) = needle})

\* The tokens of an address: its words, commas being separators.
AddressTokens(t) ==
    {Split([i \in 1..Len(t) |-> IF t[i] = "," THEN " " ELSE t[i]])[k] :
        k \in 1..Len(Split([i \in 1..Len(t) |-> IF t[i] = "," THEN " " ELSE t[i]]))}

\* The free-text address already holds the postal code, the district and the
\* state (exactly, by a synonym or by half of its words).
AddressIsComplete(pemohon_fields) ==
    /\ Get(pemohon_fields, <<"a","l","a","m","a","t","_","s","u","r","a","t">>) # <<>>
    /\ KeepDigits(Get(pemohon_fields, <<"p","o","s","k","o","d">>)) # <<>>
    /\ In(KeepDigits(Get(pemohon_fields, <<"p","o","s","k","o","d">>)), Get(pemohon_fields, <<"a","l","a","m","a","t","_","s","u","r","a","t">>))
    /\ Get(pemohon_fields, <<"b","a","n","d","a","r","_","d","a","e","r","a","h">>) # <<>>
    /\ In(Upper(Get(pemohon_fields, <<"b","a","n","d","a","r","_","d","a","e","r","a","h">>)),
          Upper(Get(pemohon_fields, <<"a","l","a","m","a","t","_","s","u","r","a","t">>)))
    /\ is_state_in_address(Get(pemohon_fields, <<"n","e","g","e","r","i">>),
                           Get(pemohon_fields, <<"a","l","a","m","a","t","_","s","u","r","a","t">>))

\* C14: the merged address pemohon.alamat has no duplicated component: a
\* postal code already in the free-text address occurs in the merged address
\* as often as in the free text, and when the free text already holds the
\* postal code, the district and a synonym of the state, the tokens of the
\* merged address are those of the free text.
C14_AddressNoDuplicates ==
    (call.fn = "record" /\ call.step # "extracted") =>
        /\ (/\ KeepDigits(Get(call.pemohon_fields, <<"p","o","s","k","o","d">>)) # <<>>
            /\ In(KeepDigits(Get(call.pemohon_fields, <<"p","o","s","k","o","d">>)),
                  Get(call.pemohon_fields, <<"a","l","a","m","a","t","_","s","u","r","a","t">>)))
           => CountOf(KeepDigits(Get(call.pemohon_fields, <<"p","o","s","k","o","d">>)),
                      Get(PemohonOf(call.data), <<"a","l","a","m","a","t">>))
              = CountOf(KeepDigits(Get(call.pemohon_fields, <<"p","o","s","k","o","d">>)),
                        Get(call.pemohon_fields, <<"a","l","a","m","a","t","_","s","u","r","a","t">>))
        /\ AddressIsComplete(call.pemohon_fields)
           => AddressTokens(Get(PemohonOf(call.data), <<"a","l","a","m","a","t">>))
              = AddressTokens(Get(call.pemohon_fields, <<"a","l","a","m","a","t","_","s","u","r","a","t">>))

\* The merged address is the four parts that are not empty, in the order
\* address, postal code, district, state (lines 685-697).
AddressIsJoinOfParts ==
    (call.fn = "record" /\ call.step # "extracted") =>
        Get(PemohonOf(call.data), <<"a","l","a","m","a","t">>)
        = clean_remove_section_labels(
              PyStr(Join(<<",", " ">>,
                         SelectSeq(<<Get(call.pemohon_fields, <<"a","l","a","m","a","t","_","s","u","r","a","t">>),
                                     Get(call.pemohon_fields, <<"p","o","s","k","o","d">>),
                                     Get(call.pemohon_fields, <<"b","a","n","d","a","r","_","d","a","e","r","a","h">>),
                                     Get(call.pemohon_fields, <<"n","e","g","e","r","i">>)>>,
                                   LAMBDA part : part # <<>>)))).value

\* The text of some child after the tenth appears in value.
HoldsLateChild(children, value) ==
    \E i \in (MAX_CHILDREN + 1)..Len(children) :
        \E j \in 1..Len(children[i]) :
            /\ children[i][j][2] # <<>>
            /\ In(children[i][j][2], value)

\* The number i of a column anak_{i}_{field}, when key is one, else 0.
ChildNumberOf(key, n) ==
    IF \E i \in 1..n : StartsWith(key, <<"a","n","a","k","_">> \o Dec(i) \o <<"_">>)
    THEN CHOOSE i \in 1..n : StartsWith(key, <<"a","n","a","k","_">> \o Dec(i) \o <<"_">>)
    ELSE 0

\* C15: a projected row of a record with N children has the columns
\* anak_{i}_{field} for 1 <= i <= min(N, 10) only, and no column of it, the
\* text blocks included, holds data of an eleventh or later child.
C15_ChildrenCappedAtTen ==
    (call.fn = "record" /\ call.step \in {"row", "row_minimal"}) =>
        \A c \in 1..Len(call.row) :
            /\ ChildNumberOf(call.row[c][1], Len(call.children)) <= MAX_CHILDREN
            /\ ~In(<<"a","n","a","k","_">> \o Dec(MAX_CHILDREN + 1) \o <<"_">>, call.row[c][2])
            /\ ~HoldsLateChild(call.children, call.row[c][2])

\* The child columns of the full row are those of the first ten children.
ChildColumnsCapped ==
    (call.fn = "record" /\ call.step = "row") =>
        /\ \A c \in 1..Len(call.row) :
               ChildNumberOf(call.row[c][1], Len(call.children)) <= MAX_CHILDREN
        /\ \A i \in 1..Len(call.children) :
               i <= MAX_CHILDREN => HasKey(call.row, <<"a","n","a","k","_">> \o Dec(i) \o <<"_","n","a","m","a">>)

\* The labels of lines (1) to (13) of the dump.
HeadlineLabels ==
    <<<<"N","A","M","E">>, <<"I","C">>, <<"P","H","1">>, <<"P","H","2">>, <<"A","D","D","R","E","S","S">>, <<"S","P","O","U","S","E"," ","I","C">>, <<"S","P","O","U","S","E"," ","N","A","M","E">>,
      <<"S","P","O","U","S","E"," ","P","H">>, <<"R","E","L","A","T","I","O","N">>, <<"R","E","L","-","I","C">>, <<"R","E","L","-","N","A","M","E">>, <<"R","E","L","-","P","H","1">>, <<"E","M","A","I","L">>>>

\* Line (k) of the dump as the row's column of that label gives it.
HeadlineFromRow(row) ==
    [k \in 1..Len(HeadlineLabels) |->
        <<"(">> \o Dec(k) \o <<")"," ">> \o HeadlineLabels[k] \o <<" ",":","-"," ">> \o Item(row, HeadlineLabels[k])]

KeysOf(items) == {items[i][1] : i \in 1..Len(items)}

\* C16: both rows have a column 'Card Number' holding the empty string; the
\* minimal row has exactly the 13 headline columns, 'Card Number' and
\* 'Details', and each headline column holds the value of the line of the
\* dump that carries its label.
C16_MinimalRowIsHeadline ==
    /\ (call.fn = "record" /\ call.step \in {"row", "row_minimal"}) =>
           /\ HasKey(call.row, <<"C","a","r","d"," ","N","u","m","b","e","r">>)
           /\ Item(call.row, <<"C","a","r","d"," ","N","u","m","b","e","r">>) = <<>>
    /\ (call.fn = "record" /\ call.step = "row_minimal") =>
           /\ Len(call.row) = 15
           /\ KeysOf(call.row) =
                  {HeadlineLabels[k] : k \in 1..13} \cup {<<"C","a","r","d"," ","N","u","m","b","e","r">>, <<"D","e","t","a","i","l","s">>}
           /\ Item(call.row, <<"D","e","t","a","i","l","s">>) = format_details_column(call.data)
           /\ StartsWith(Item(call.row, <<"D","e","t","a","i","l","s">>),
                         Join(T_NEWLINE, HeadlineFromRow(call.row)) \o T_NEWLINE)

\* A minimal row of a record with a spouse and a next of kin.
C16_Witness ==
    /\ call.fn = "record" /\ call.step = "row_minimal"
    /\ Item(call.row, <<"P","H","1">>) = <<"0","1","2","3">>
    /\ Item(call.row, <<"S","P","O","U","S","E"," ","N","A","M","E">>) = <<"S","I","T","I">>
    /\ Item(call.row, <<"R","E","L","-","N","A","M","E">>) = <<"A","B","U">>
    /\ Item(call.row, <<"I","C">>) = <<"7","4","0","3","0","7","0","1","5","3","5","9">>

\* The columns of a row that are neither a field under a role prefix nor the
\* card number: its synthetic text columns.
SyntheticTextColumns(row) ==
    {k \in KeysOf(row) :
        /\ k # <<"C","a","r","d"," ","N","u","m","b","e","r">>
        /\ \A prefix \in {<<"p","e","m","o","h","o","n","_">>, <<"p","a","s","a","n","g","a","n","_">>, <<"w","a","r","i","s","_">>, <<"d","o","c","u","m","e","n","t","_">>, <<"a","n","a","k","_">>} :
               ~StartsWith(k, prefix)}

\* Every field of a role of the record is a column of the row.
RoleFieldsInRow(data, row, role, prefix) ==
    \A i \in 1..Len(flatten_dict(GetDict(data, role))) :
        /\ HasKey(row, prefix \o flatten_dict(GetDict(data, role))[i][1])
        /\ Item(row, prefix \o flatten_dict(GetDict(data, role))[i][1])
           = flatten_dict(GetDict(data, role))[i][2]

\* C17: the full row holds every pemohon, pasangan and waris field under its
\* role prefix and two distinct synthetic text columns, the full dump and a
\* separate headline summary of 13 lines.
C17_EverythingHasTwoTextBlocks ==
    (call.fn = "record" /\ call.step = "row") =>
        /\ RoleFieldsInRow(call.data, call.row, <<"p","e","m","o","h","o","n">>, <<"p","e","m","o","h","o","n","_">>)
        /\ RoleFieldsInRow(call.data, call.row, <<"p","a","s","a","n","g","a","n">>, <<"p","a","s","a","n","g","a","n","_">>)
        /\ RoleFieldsInRow(call.data, call.row, <<"w","a","r","i","s">>, <<"w","a","r","i","s","_">>)
        /\ Item(call.row, <<"D","e","t","a","i","l","s">>) = format_details_column(call.data)
        /\ \E k \in SyntheticTextColumns(call.row) :
               /\ k # <<"D","e","t","a","i","l","s">>
               /\ In(<<"(","1","3",")"," ","E","M","A","I","L"," ",":","-"," ">>, Item(call.row, k))

\* The full row holds every role field and the dump, its one text column.
EverythingHasRoleFieldsAndDump ==
    (call.fn = "record" /\ call.step = "row") =>
        /\ RoleFieldsInRow(call.data, call.row, <<"p","e","m","o","h","o","n">>, <<"p","e","m","o","h","o","n","_">>)
        /\ RoleFieldsInRow(call.data, call.row, <<"p","a","s","a","n","g","a","n">>, <<"p","a","s","a","n","g","a","n","_">>)
        /\ RoleFieldsInRow(call.data, call.row, <<"w","a","r","i","s">>, <<"w","a","r","i","s","_">>)
        /\ Item(call.row, <<"D","e","t","a","i","l","s">>) = format_details_column(call.data)
        /\ SyntheticTextColumns(call.row) = {<<"D","e","t","a","i","l","s">>}

\* C19: the columns of the sheet of the 'everything' mode are in the order
\* pemohon_no_mykad, Card Number, the text blocks, the other role fields, the
\* document_* fields, the anak_* fields and last source_file; every
\* document_* column stands before every anak_* column.
C19_EverythingColumnOrder ==
    (call.fn = "record" /\ call.step = "sheet" /\ call.mode = "everything") =>
        /\ call.sheet.columns[1] = <<"p","e","m","o","h","o","n","_","n","o","_","m","y","k","a","d">>
        /\ call.sheet.columns[2] = <<"C","a","r","d"," ","N","u","m","b","e","r">>
        /\ call.sheet.columns[Len(call.sheet.columns)] = <<"s","o","u","r","c","e","_","f","i","l","e">>
        /\ \A i, j \in 1..Len(call.sheet.columns) :
               (/\ StartsWith(call.sheet.columns[i], <<"d","o","c","u","m","e","n","t","_">>)
                /\ StartsWith(call.sheet.columns[j], <<"a","n","a","k","_">>)) => i < j

\* The sheet of the 'everything' mode starts with the identity number, the
\* card number and the dump, and ends with the document fields and the file.
EverythingOrderAsWritten ==
    (call.fn = "record" /\ call.step = "sheet" /\ call.mode = "everything") =>
        /\ SubSeq(call.sheet.columns, 1, 3) = <<<<"p","e","m","o","h","o","n","_","n","o","_","m","y","k","a","d">>, <<"C","a","r","d"," ","N","u","m","b","e","r">>, <<"D","e","t","a","i","l","s">>>>
        /\ call.sheet.columns[Len(call.sheet.columns)] = <<"s","o","u","r","c","e","_","f","i","l","e">>
        /\ \A i, j \in 1..Len(call.sheet.columns) :
               (/\ StartsWith(call.sheet.columns[i], <<"d","o","c","u","m","e","n","t","_">>)
                /\ StartsWith(call.sheet.columns[j], <<"a","n","a","k","_">>)) => j < i
        /\ call.sheet.written = Len(call.all_data)

\* --------------------------------- BatchProcessor.process_pdfs (32-72)
\* Number of files of a batch.
MaxFiles == 3

\* The item_status values the callback is called with.
ItemStatuses == {"processing", "success", "error"}

\* progress_callback: None, or a callable that raises for the statuses in
\* raises_on and returns for the others.
NoCallback == [present |-> FALSE, raises_on |-> {}]
Callback(raises_on) == [present |-> TRUE, raises_on |-> raises_on]

\* `if progress_callback: await progress_callback(..., status)` raises.
NotifyRaises(progress_callback, status) ==
    progress_callback.present /\ status \in progress_callback.raises_on

\* Lines 42-44, with the extractor's fields before the first file.
BatchStart(flds) ==
    [fields |-> flds, all_data |-> <<>>, failed_files |-> <<>>,
     attempted |-> <<>>, raised |-> FALSE]

\* The except clause without its failed_files.append.
OnException_DropsFile(st, idx, progress_callback) ==
    [st EXCEPT !.raised = NotifyRaises(progress_callback, "error")]

\* Lines 60-70: the except clause for file idx; an exception of the "error"
\* notification leaves process_pdfs.
OnException(st, idx, progress_callback) ==
    [st EXCEPT !.failed_files = Append(@, idx),
               !.raised = NotifyRaises(progress_callback, "error")]

\* Lines 52-59 once extract_from_pdf has ended: the record is appended and
\* then "success" is notified, both inside the try.
AfterExtract(st, idx, out, progress_callback) ==
    IF out.kind = "ok"
    THEN (IF NotifyRaises(progress_callback, "success")
          THEN OnException([st EXCEPT !.fields = out.fields_after,
                                      !.all_data = Append(@, [file |-> idx, data |-> out])],
                           idx, progress_callback)
          ELSE [st EXCEPT !.fields = out.fields_after,
                          !.all_data = Append(@, [file |-> idx, data |-> out])])
    ELSE OnException([st EXCEPT !.fields = out.fields_after], idx, progress_callback)

\* Lines 46-70: the loop from file idx on. The "processing" notification is
\* outside the try.
RECURSIVE RunFiles(_, _, _, _, _, _)
RunFiles(st, pdf_files, idx, progress_callback, path, files) ==
    IF idx > Len(pdf_files) \/ st.raised THEN st
    ELSE IF NotifyRaises(progress_callback, "processing") THEN [st EXCEPT !.raised = TRUE]
    ELSE RunFiles(AfterExtract([st EXCEPT !.attempted = Append(@, idx)], idx,
                               ExtractOutcome(st.fields, path, files, pdf_files[idx]),
                               progress_callback),
                  pdf_files, idx + 1, progress_callback, path, files)

\* process_pdfs(pdf_files, progress_callback) on an extractor in state flds
process_pdfs(pdf_files, progress_callback, flds, path, files) ==
    RunFiles(BatchStart(flds), pdf_files, 1, progress_callback, path, files)

\* ------------------------------------------ SpecBatch: one batch of files
\* A readable document, one whose page cannot be read, one that cannot be
\* opened.
BatchDocs == {DocMarried, DocBrokenPage, UnreadableDoc}

FileLists == UNION {[1..n -> BatchDocs] : n \in 0..MaxFiles}

\* The callbacks process_pdfs is given: none (the default), and the one of
\* main.py 146-155, which awaits manager.send_progress; that method keeps
\* every exception of the send to itself (main.py 63-68), so the callback
\* raises for no status.
Callbacks == {NoCallback, Callback({})}

BatchCall(pdf_files, progress_callback) ==
    [fn |-> "batch", done |-> FALSE, pdf_files |-> pdf_files,
     progress_callback |-> progress_callback, result |-> BatchStart(<<>>)]

InitBatch ==
    /\ template_files \in TemplateFileSets
    /\ template_path = BaseTemplatePath
    /\ fields = template_files[BaseTemplatePath]
    /\ n_docs = 0
    /\ last = NoExtraction
    /\ call \in {BatchCall(pdf_files, cb) : pdf_files \in FileLists, cb \in Callbacks}

\* await processor.process_pdfs(pdf_files, progress_callback) (main.py 157)
ProcessPdfs ==
    /\ call.fn = "batch" /\ ~call.done
    /\ \E st \in {process_pdfs(call.pdf_files, call.progress_callback, fields,
                               template_path, template_files)} :
           /\ call' = [call EXCEPT !.done = TRUE, !.result = st]
           /\ fields' = st.fields
    /\ UNCHANGED <<template_files, template_path, n_docs, last>>

NextBatch == ProcessPdfs

SpecBatch == InitBatch /\ [][NextBatch]_vars

\* process_pdfs has returned (not raised).
BatchReturned == call.fn = "batch" /\ call.done /\ ~call.result.raised

\* File i has a record in all_data / an entry in failed_files.
InAllData(st, i) == \E k \in 1..Len(st.all_data) : st.all_data[k].file = i
InFailedFiles(st, i) == \E k \in 1..Len(st.failed_files) : st.failed_files[k] = i

\* Every file is in exactly one of the two lists, once.
AccountedOnce(st, n) ==
    /\ \A i \in 1..n : InAllData(st, i) # InFailedFiles(st, i)
    /\ Len(st.all_data) + Len(st.failed_files) = n

\* C18: process_pdfs attempts every file in list order whatever happened to
\* the earlier files, and when it returns each file has either its record in
\* all_data or its entry in failed_files, never both and never neither, so
\* len(all_data) + len(failed_files) = len(pdf_files).
C18_EveryFileAccountedOnce ==
    BatchReturned =>
        /\ call.result.attempted = [i \in 1..Len(call.pdf_files) |-> i]
        /\ AccountedOnce(call.result, Len(call.pdf_files))

\* The batch [unopenable file, readable file] has returned.
C18_Witness ==
    /\ BatchReturned
    /\ call.pdf_files = <<UnreadableDoc, DocMarried>>
    /\ InFailedFiles(call.result, 1)
    /\ InAllData(call.result, 2)

\* process_pdfs returns; a file that cannot be opened is in failed_files and
\* a readable one in all_data, whatever came before it.
BatchReturnsWithFailuresListed ==
    (call.fn = "batch" /\ call.done) =>
        /\ BatchReturned
        /\ \A i \in 1..Len(call.pdf_files) :
               /\ call.pdf_files[i] = UnreadableDoc => InFailedFiles(call.result, i)
               /\ call.pdf_files[i] = DocMarried => InAllData(call.result, i)

\* ---------------------------------------- pdf_cropper.detect_border (12-75)
\* An image is its size and the external contours cv2.findContours returns
\* for its dark areas, each with its cv2.contourArea, its cv2.boundingRect
\* (x, y, w, h) and the number of vertices of its cv2.approxPolyDP polygon.
Contour(area, x, y, w, h, vertices) ==
    [area |-> area, x |-> x, y |-> y, w |-> w, h |-> h, vertices |-> vertices]

Image(img_width, img_height, contours) ==
    [img_width |-> img_width, img_height |-> img_height, contours |-> contours]

\* Line 47: contour_area < 0.8 * image_area, as 80 hundredths.
MIN_AREA_PERCENT == 80
\* Line 54
MIN_BORDER_OFFSET == 30
\* Line 61: max_margin_threshold = 0.10, as 10 hundredths.
MAX_MARGIN_PERCENT == 10
\* Line 71: len(approx) < 4 or len(approx) > 6
MIN_VERTICES == 4
MAX_VERTICES == 6

NoBorderBox == [none |-> TRUE, box |-> <<0, 0, 0, 0>>]
BorderBox(x, y, w, h) == [none |-> FALSE, box |-> <<x, y, w, h>>]

\* max(contours, key=cv2.contourArea): the first contour of the largest area
LargestContour(contours) ==
    contours[CHOOSE i \in 1..Len(contours) :
                 /\ \A j \in 1..Len(contours) : contours[j].area <= contours[i].area
                 /\ \A j \in 1..(i - 1) : contours[j].area < contours[i].area]

\* Lines 38-75 with the lower bound of the offset test made strict.
CheckBorder_OffsetStrict(c, img_width, img_height) ==
    IF 100 * (c.w * c.h) < MIN_AREA_PERCENT * (img_width * img_height) THEN NoBorderBox
    ELSE IF c.x <= MIN_BORDER_OFFSET \/ c.y <= MIN_BORDER_OFFSET THEN NoBorderBox
    ELSE IF 100 * c.x > MAX_MARGIN_PERCENT * img_width
            \/ 100 * c.y > MAX_MARGIN_PERCENT * img_height THEN NoBorderBox
    ELSE IF c.vertices < MIN_VERTICES \/ c.vertices > MAX_VERTICES THEN NoBorderBox
    ELSE BorderBox(c.x, c.y, c.w, c.h)

\* Lines 38-75: the tests on the largest contour c. The products with 0.8
\* and 0.10 are exact in floating point where they are whole numbers, so
\* the comparisons are those of the hundredths.
CheckBorder(c, img_width, img_height) ==
    IF 100 * (c.w * c.h) < MIN_AREA_PERCENT * (img_width * img_height) THEN NoBorderBox
    ELSE IF c.x < MIN_BORDER_OFFSET \/ c.y < MIN_BORDER_OFFSET THEN NoBorderBox
    ELSE IF 100 * c.x > MAX_MARGIN_PERCENT * img_width
            \/ 100 * c.y > MAX_MARGIN_PERCENT * img_height THEN NoBorderBox
    ELSE IF c.vertices < MIN_VERTICES \/ c.vertices > MAX_VERTICES THEN NoBorderBox
    ELSE BorderBox(c.x, c.y, c.w, c.h)

detect_border(image_array) ==
    IF image_array.contours = <<>> THEN NoBorderBox
    ELSE CheckBorder(LargestContour(image_array.contours),
                     image_array.img_width, image_array.img_height)

\* pdf_cropper.detect_v2_border (78-117). A file is: whether its path exists,
\* whether it opens and renders without an exception, its number of pages
\* and the image of its first page.
detect_v2_border(file) ==
    IF ~file.exists THEN FALSE
    ELSE IF ~file.opens THEN FALSE
    ELSE IF file.n_pages = 0 THEN FALSE
    ELSE IF ~file.renders THEN FALSE
    ELSE ~detect_border(file.image).none

\* --------------------------------------------- SpecBorder: one page image
\* Largest number of contours of an image.
MaxContours == 2

\* Page sizes in pixels: a square page, A4 at 150 dpi, a small page.
ImageSizes == {<<1100, 1100>>, <<1240, 1754>>, <<400, 500>>}

\* Offsets of a rectangle from the left (top) edge of a page img_width wide.
Offsets(img_width) ==
    {5, MIN_BORDER_OFFSET - 1, MIN_BORDER_OFFSET, 40, img_width \div 10, (img_width \div 10) + 1}

VertexCounts == {MIN_VERTICES - 1, MIN_VERTICES, MAX_VERTICES, MAX_VERTICES + 1}

\* Widths of a rectangle at x: up to 5 pixels from the right edge, inset
\* alike on both sides, and the width of the rectangle of exactly 80%.
RectWidths(img_width, x) == {img_width - x - 5, img_width - 2 * x, 1000}

\* Heights of a rectangle at y, the last two giving exactly 80% of the
\* square page, and one row less.
RectHeights(img_height, y) == {img_height - y - 5, img_height - 2 * y, 968, 967}

\* The contour of a dark rectangle: its area is that of the polygon through
\* its corner pixels.
RectContours(img_width, img_height) ==
    {Contour((w - 1) * (h - 1), x, y, w, h, v) :
        x \in Offsets(img_width), y \in Offsets(img_height),
        w \in UNION {RectWidths(img_width, x0) : x0 \in Offsets(img_width)},
        h \in UNION {RectHeights(img_height, y0) : y0 \in Offsets(img_height)},
        v \in VertexCounts}

\* Those of the widths and heights chosen for their own offset that lie
\* within the page.
FittingContours(img_width, img_height) ==
    {c \in RectContours(img_width, img_height) :
        /\ c.w \in RectWidths(img_width, c.x) /\ c.h \in RectHeights(img_height, c.y)
        /\ c.w > 0 /\ c.h > 0 /\ c.x + c.w <= img_width /\ c.y + c.h <= img_height}

\* A line of text, and a thin diagonal stroke whose bounding rectangle is
\* large but whose area is small.
TextContour == Contour(2189, 100, 200, 200, 12, 4)
StrokeContour == Contour(3000, 40, 40, 320, 420, 4)

ContourLists(img_width, img_height) ==
    {<<>>} \cup
    {cs \in UNION {{<<c>>, <<c, TextContour>>, <<TextContour, c>>, <<StrokeContour, c>>} :
                      c \in FittingContours(img_width, img_height)} :
        Len(cs) <= MaxContours}

Images ==
    UNION {{Image(sz[1], sz[2], cs) : cs \in ContourLists(sz[1], sz[2])} : sz \in ImageSizes}

PdfFile(exists, opens, n_pages, renders, image) ==
    [exists |-> exists, opens |-> opens, n_pages |-> n_pages, renders |-> renders,
     image |-> image]

PdfFiles ==
    {PdfFile(TRUE, TRUE, 1, TRUE, im) : im \in Images} \cup
    {PdfFile(e, o, n, r, Image(400, 500, <<Contour(133661, 40, 40, 320, 420, 4)>>)) :
        e \in BOOLEAN, o \in BOOLEAN, n \in 0..1, r \in BOOLEAN}

BorderCall(file) ==
    [fn |-> "border", done |-> FALSE, op |-> "", file |-> file, border_box |-> NoBorderBox,
     v2 |-> FALSE]

InitBorder ==
    /\ template_files = NoFiles
    /\ template_path = <<>>
    /\ fields = <<>>
    /\ n_docs = 0
    /\ last = NoExtraction
    /\ call \in {BorderCall(f) : f \in PdfFiles}

\* detect_border(image_array) on the rendered first page
CallDetectBorder ==
    /\ call.fn = "border" /\ ~call.done
    /\ call.file.exists /\ call.file.opens /\ call.file.n_pages > 0 /\ call.file.renders
    /\ call' = [call EXCEPT !.done = TRUE, !.op = "detect_border",
                            !.border_box = detect_border(call.file.image)]
    /\ UNCHANGED <<template_files, template_path, fields, n_docs, last>>

\* detect_v2_border(input_pdf_path)
CallDetectV2Border ==
    /\ call.fn = "border" /\ ~call.done
    /\ call' = [call EXCEPT !.done = TRUE, !.op = "detect_v2_border",
                            !.v2 = detect_v2_border(call.file)]
    /\ UNCHANGED <<template_files, template_path, fields, n_docs, last>>

NextBorder == CallDetectBorder \/ CallDetectV2Border

SpecBorder == InitBorder /\ [][NextBorder]_vars

\* The four conditions on a bounding rectangle, as stated.
IsBorder(c, img_width, img_height) ==
    /\ 100 * (c.w * c.h) >= 80 * (img_width * img_height)
    /\ c.x >= 30 /\ c.y >= 30
    /\ 10 * c.x <= img_width /\ 10 * c.y <= img_height
    /\ c.vertices \in 4..6

\* A 4-vertex rectangle inset px pixels on every side is the page's one
\* contour or its largest, and covers at least 85% of the page.
IsInsetRectangle(image, px) ==
    /\ image.contours # <<>>
    /\ LargestContour(image.contours).x = px
    /\ LargestContour(image.contours).y = px
    /\ LargestContour(image.contours).w = image.img_width - 2 * px
    /\ LargestContour(image.contours).h = image.img_height - 2 * px
    /\ LargestContour(image.contours).vertices = 4

\* C20: detect_border accepts the bounding rectangle (x, y, w, h) of the
\* largest dark contour exactly when w*h is at least 80% of the image area,
\* x >= 30 and y >= 30, x and y are at most 10% of the width and height, and
\* the polygon approximation has 4 to 6 vertices; so a 4-vertex rectangle
\* inset 40 px that covers 85% of the page is classified v2 and the same
\* rectangle inset 5 px is not.
C20_BorderAcceptedIff ==
    /\ (call.fn = "border" /\ call.done /\ call.op = "detect_border"
        /\ call.file.image.contours # <<>>) =>
           /\ ~call.border_box.none
              <=> IsBorder(LargestContour(call.file.image.contours),
                           call.file.image.img_width, call.file.image.img_height)
           /\ ~call.border_box.none =>
                  call.border_box.box =
                      <<LargestContour(call.file.image.contours).x,
                        LargestContour(call.file.image.contours).y,
                        LargestContour(call.file.image.contours).w,
                        LargestContour(call.file.image.contours).h>>
    /\ (call.fn = "border" /\ call.done /\ call.op = "detect_v2_border"
        /\ call.file.exists /\ call.file.opens /\ call.file.n_pages > 0
        /\ call.file.renders) =>
           /\ (/\ IsInsetRectangle(call.file.image, 40)
               /\ 100 * ((call.file.image.img_width - 80) * (call.file.image.img_height - 80))
                  >= 85 * (call.file.image.img_width * call.file.image.img_height))
              => call.v2
           /\ IsInsetRectangle(call.file.image, 5) => ~call.v2

\* The square page with the rectangle inset 40 px has been classified v2.
C20_Witness ==
    /\ call.fn = "border" /\ call.done /\ call.op = "detect_v2_border"
    /\ call.file.image.img_width = 1100 /\ call.file.image.img_height = 1100
    /\ IsInsetRectangle(call.file.image, 40)
    /\ call.v2

\* A file that is missing, does not open, has no page or does not render is
\* not v2; a rendered one is v2 exactly when detect_border finds a box.
V2IffBorderBox ==
    (call.fn = "border" /\ call.done /\ call.op = "detect_v2_border") =>
        call.v2 <=> /\ call.file.exists /\ call.file.opens
                    /\ call.file.n_pages > 0 /\ call.file.renders
                    /\ ~detect_border(call.file.image).none

\* --------------------------- SpecScan: the extraction of a printed revision
\* V2_OFFSET_Y of config/constants.py (28.34), in hundredths of a unit.
V2_OFFSET_Y_HUNDREDTHS == 2834

\* First pages as pdf_cropper sees them: the unbordered revision (text
\* only), the bordered revision (a rectangle 40 pixels inside the page), and
\* a page whose dark frame touches the page edge.
PlainImage == Image(1240, 1754, <<TextContour>>)
BorderedImage == Image(1240, 1754, <<Contour(1159 * 1673, 40, 40, 1160, 1674, 4), TextContour>>)
EdgeImage == Image(1240, 1754, <<Contour(1229 * 1743, 5, 5, 1230, 1744, 4)>>)

ScanImages == {PlainImage, BorderedImage, EdgeImage}

ScanCall(image, doc) ==
    [fn |-> "scan", done |-> FALSE, doc |-> doc,
     file |-> PdfFile(TRUE, doc.openable, Len(doc.pages), TRUE, image)]

InitScan ==
    /\ template_files \in TemplateFileSets
    /\ template_path = BaseTemplatePath
    /\ fields = template_files[BaseTemplatePath]
    /\ n_docs = 0
    /\ last = NoExtraction
    /\ call \in {ScanCall(image, doc) : image \in ScanImages, doc \in Docs}

\* extractor.extract_from_pdf(pdf_path) for the file of the call. Nothing
\* in extract_from_pdf, nor in its callers, calls detect_v2_border.
ExtractScanned ==
    /\ call.fn = "scan" /\ ~call.done
    /\ \E out \in {ExtractOutcome(fields, template_path, template_files, call.doc)} :
           /\ last' = out
           /\ fields' = out.fields_after
    /\ call' = [call EXCEPT !.done = TRUE]
    /\ n_docs' = n_docs + 1
    /\ UNCHANGED <<template_files, template_path>>

NextScan == ExtractScanned

SpecScan == InitScan /\ [][NextScan]_vars

\* The file of the call has been extracted and is of the bordered revision.
BorderedExtracted ==
    /\ call.fn = "scan" /\ call.done /\ last.kind = "ok"
    /\ detect_v2_border(call.file)

\* The next-of-kin offset as detected on the page the section is on.
WarisDetected ==
    detect_section_offset(last.fields_after, last.doc.pages[last.waris_page],
                          WarisHeader, Len(last.doc.pages))

\* C21: for a document detected as bordered, the applicant, spouse and
\* children offsets are not recalculated from the header positions (the
\* lookups of these sections use the template as it is), and the
\* next-of-kin offset is the detected value less the fixed border offset.
C21_BorderedOffsetsNotRecalculated ==
    BorderedExtracted =>
        /\ last.offsets.pemohon = 0
        /\ last.offsets.pasangan = 0
        /\ last.offsets.anak = 0
        /\ last.waris_exists =>
               100 * last.offsets.waris.v = 100 * WarisDetected.v - V2_OFFSET_Y_HUNDREDTHS

\* Every extraction, of a bordered file or not, recalculates the four
\* offsets from the header positions and uses the detected values as they
\* are.
OffsetsAlwaysRecalculated ==
    (call.fn = "scan" /\ call.done /\ last.kind = "ok") =>
        /\ last.offsets.pemohon =
               detect_section_offset(last.fields_after, last.doc.pages[1], H_pemohon,
                                     Len(last.doc.pages)).v
        /\ last.offsets.pasangan =
               detect_section_offset(last.fields_after, last.doc.pages[1], H_pasangan,
                                     Len(last.doc.pages)).v
        /\ last.offsets.anak =
               detect_section_offset(last.fields_after, last.doc.pages[1], H_anak,
                                     Len(last.doc.pages)).v
        /\ last.waris_exists => last.offsets.waris = WarisDetected

\* ----------------------------------- the loaded template across documents
\* The path of the template document whose fields the extractor holds.
PathsHolding(flds) == {p \in DOMAIN template_files : template_files[p] = flds}

\* C22: extract_from_pdf reloads a template exactly when the template
\* selected for the document is not the one the extractor holds, so a
\* document that selects the template of the document before it causes no
\* reload, and after every extraction template_path names the template
\* whose fields the extractor holds.
C22_ReloadIffTemplateChanges ==
    last.kind = "ok" =>
        /\ last.reloaded <=> last.template_to_use \notin PathsHolding(last.fields_before)
        /\ template_path \in PathsHolding(fields)

\* Every extraction reloads the selected template, and template_path stays
\* the path given to __init__ whatever the extractor holds.
ReloadsEveryDocument ==
    /\ template_path = BaseTemplatePath
    /\ last.kind = "ok" =>
           /\ last.reloaded
           /\ last.fields_after = template_files[last.template_to_use]
           /\ fields = last.fields_after

\* C23: stage 1 of every extraction reads the marital-status box of the
\* base template: no extraction replaces the template the extractor was
\* constructed with, so the n-th document's status is read with the base
\* template's box and not with the box of a template selected earlier.
C23_StageOneReadsBaseTemplate ==
    last.kind = "ok" =>
        /\ last.fields_before = template_files[BaseTemplatePath]
        /\ last.status_raw =
               ReadStatusBox(template_files[BaseTemplatePath], last.doc.pages[1]).value

\* Stage 1 reads the box of the template the extractor holds when the call
\* begins: the base template for the first document, the template selected
\* for the document before for the others.
StageOneReadsLoadedTemplate ==
    /\ last.kind = "ok" =>
           last.status_raw = ReadStatusBox(last.fields_before, last.doc.pages[1]).value
    /\ [][(last.kind = "ok" /\ last'.kind = "ok") =>
              last'.fields_before = template_files[last.template_to_use]]_vars
    /\ [][n_docs = 0 => last'.fields_before = template_files[BaseTemplatePath]]_vars

\* ------------------------------------------- header anchors and their radius
\* A finished detection that searched the page: the header is in the loaded
\* template and the page's words could be read.
DetectSearched ==
    /\ call.fn = "detect_section_offset" /\ call.done
    /\ call.header_field_name \in DOMAIN fields
    /\ call.page.ok

\* w carries a keyword that makes it the anchor of header h: MAKLUMAT for
\* the next-of-kin header, any keyword of the section otherwise.
AnchorKeyword(w, h) ==
    IF h = WarisHeader THEN In(T_MAKLUMAT, Upper(w.text))
    ELSE \E kw \in HeaderKeywords(h) : In(kw, Upper(w.text))

\* template_x - 20 <= x0 <= template_x + width + 20
WithinXMargin(w, box) ==
    /\ w.x0 >= box.x.v - 20 * Scale
    /\ w.x0 <= box.x.v + box.width.v + 20 * Scale

\* 50 units around the template position, 200 for the next-of-kin header
WithinRadius(w, box, h) ==
    IF h = WarisHeader
    THEN Abs(w.top - box.y.v) <= 200 * Scale
    ELSE Abs(w.top - box.y.v) <= 50 * Scale

\* The detection returned the offset of a word of the page.
AnchorReturned ==
    /\ DetectSearched
    /\ ~call.ret.none
    /\ (call.header_field_name = WarisHeader \/ call.ret.v # 0)

\* C24 as written: whenever a detection returns the offset of a word, that
\* word lies in the x-range of the header box and within the header's
\* search radius, whatever the page count.
C24_AnchorWithinRadius ==
    AnchorReturned =>
        \E i \in 1..Len(call.page.words) :
            /\ AnchorKeyword(call.page.words[i], call.header_field_name)
            /\ IntTrunc(call.page.words[i].top - fields[call.header_field_name].y.v) = call.ret.v
            /\ WithinXMargin(call.page.words[i], fields[call.header_field_name])
            /\ WithinRadius(call.page.words[i], fields[call.header_field_name], call.header_field_name)

\* C24 amended: the anchor lies in the x-range; it lies within the search
\* radius for the plain headers and for the next-of-kin header of a
\* single-page document; the next-of-kin header of a multi-page document has
\* no vertical limit.
C24_AnchorWithinRadiusUnlessMultiPageWaris ==
    AnchorReturned =>
        \E i \in 1..Len(call.page.words) :
            /\ AnchorKeyword(call.page.words[i], call.header_field_name)
            /\ IntTrunc(call.page.words[i].top - fields[call.header_field_name].y.v) = call.ret.v
            /\ WithinXMargin(call.page.words[i], fields[call.header_field_name])
            /\ \/ call.header_field_name = WarisHeader /\ call.page_count > 1
               \/ WithinRadius(call.page.words[i], fields[call.header_field_name], call.header_field_name)

\* A multi-page next-of-kin detection anchored 201 units below the template.
C24_Witness ==
    /\ AnchorReturned
    /\ call.header_field_name = WarisHeader
    /\ call.page_count = 2
    /\ call.ret.v = 201

\* A single-page next-of-kin detection never returns an offset beyond 200.
SinglePageWarisWithinRadius ==
    (AnchorReturned /\ call.header_field_name = WarisHeader /\ call.page_count = 1)
        => Abs(call.ret.v) <= 200

\* --------------------------------------------- offsets of the plain headers
PlainHeaders == {H_pemohon, H_pasangan, H_anak}

PlainDetectDone ==
    /\ call.fn = "detect_section_offset" /\ call.done
    /\ call.header_field_name \in PlainHeaders

\* Word i of the page carries a keyword of the section and lies within the
\* x-range and the 50-unit radius of the header box of the loaded template.
PlainMatch(i) ==
    /\ AnchorKeyword(call.page.words[i], call.header_field_name)
    /\ WithinXMargin(call.page.words[i], fields[call.header_field_name])
    /\ Abs(call.page.words[i].top - fields[call.header_field_name].y.v) <= 50 * Scale

PlainSearched ==
    /\ call.header_field_name \in DOMAIN fields
    /\ call.page.ok
    /\ \E i \in 1..Len(call.page.words) : PlainMatch(i)

WarisItems(waris_fields) ==
    LET keys == SelectSeq(<<K_hubungan, <<"n","o","_","p","e","n","g","e","n","a","l","a","n">>, K_nama, <<"n","o","_","t","e","l","e","f","o","n">>>>,
                          LAMBDA k : k \in DOMAIN waris_fields)
    IN  [i \in 1..Len(keys) |-> <<keys[i], StrV(waris_fields[keys[i]])>>]

\* record['waris'] of the record returned at line 475.
WarisGroupOf(waris_fields) ==
    GetDict(structure_data(<<>>, <<>>, WarisItems(waris_fields), <<>>), <<"w","a","r","i","s">>)

WarisGroupIsEmpty(waris_fields) ==
    WarisGroupOf(waris_fields) =
        << <<K_hubungan, StrV(<<>>)>>, <<<<"n","o","_","p","e","n","g","e","n","a","l","a","n">>, StrV(<<>>)>>,
           <<K_nama, StrV(<<>>)>>, <<<<"t","e","l","e","f","o","n">>, StrV(<<>>)>> >>

\* Page n of the document shows the next-of-kin header line.
HeaderPairOn(doc, n) == n <= Len(doc.pages) /\ SameLineHeaderPair(doc.pages[n])

\* The last call worked on a document that opens and shows the next-of-kin
\* header neither on page 1 nor on page 2.
ExtractedWithoutHeader ==
    /\ last.kind \in {"ok", "error"}
    /\ last.doc.openable
    /\ ~HeaderPairOn(last.doc, 1)
    /\ ~HeaderPairOn(last.doc, 2)

NoWarisLookup == \A l \in last.lookups : ~StartsWith(l.field_name, P_waris)

\* C26 as written: a document with the next-of-kin header on no page is
\* extracted without error, with no lookup of a waris_ field, and its
\* record's waris group is four empty strings.
C26_NoWarisHeaderNoLookups ==
    ExtractedWithoutHeader =>
        /\ last.kind = "ok"
        /\ NoWarisLookup
        /\ WarisGroupIsEmpty(last.waris_fields)

\* What the code does: the lookups are skipped, and the group is empty, when
\* both detections returned None (waris_exists is False).
NoLookupsWhenDetectionReturnsNone ==
    (last.kind = "ok" /\ ~last.waris_exists) =>
        /\ NoWarisLookup
        /\ last.waris_fields = <<>>
        /\ WarisGroupIsEmpty(last.waris_fields)

\* An unreadable page counts as a page with the header at offset 0.
UnreadablePageCountsAsFound ==
    (last.kind = "ok" /\ last.doc = DocBrokenPage) =>
        /\ last.waris_exists
        /\ last.offsets.waris = Some(0)

\* ------------------------------------------------ the section-label stripper
SectionLabels == {T_Pemohon, T_Pasangan, T_Waris, T_Anak}

\* The positions at which a section label starts in t, compared without case.
LabelStarts(t) ==
    {i \in 1..Len(t) : \E label \in SectionLabels :
        /\ i + Len(label) - 1 <= Len(t)
        /\ Upper(SubSeq(t, i, i + Len(label) - 1)) = Upper(label)}

\* t up to the earliest section label; t itself when it has none.
BeforeEarliestLabel(t) ==
    IF LabelStarts(t) = {} THEN t
    ELSE SubSeq(t, 1, (CHOOSE i \in LabelStarts(t) : \A k \in LabelStarts(t) : i <= k) - 1)

\* C27: on every text the method and the function of the section-label
\* stripper return the same string: the text before the earliest
\* case-insensitive occurrence of Pemohon, Pasangan, Waris or Anak, with
\* surrounding whitespace and a trailing comma trimmed; the result contains
\* none of the four labels.
C27_CutAtEarliestLabel ==
    (CleanDone("clean_remove_section_labels") /\ ~call.arg.none) =>
        /\ call.method = call.function
        /\ call.method = Returned(TrimCommas(BeforeEarliestLabel(call.arg.s)))
        /\ LabelStarts(call.method.value) = {}

\* Two labels, the one cut last standing first, after a name and a comma.
C27_Witness ==
    /\ CleanDone("clean_remove_section_labels")
    /\ call.arg = PyStr(T_abu_comma \o T_SPACE \o T_ANAK)
    /\ call.method = Returned(<<"a", "b", "u">>)

\* The label cut last stands before the label cut first.
LaterLabelStandsFirst ==
    (CleanDone("clean_remove_section_labels")
        /\ call.arg = PyStr(T_ANAK \o T_SPACE \o T_Pemohon))
    => call.method = Returned(T_EMPTY)

\* ------------------------------------------- the header of the children table
\* The header row names a name, a MyKad or MyKid, and an age column.
HeaderNamesChildColumns(header) ==
    /\ In(T_NAMA, HeaderText(header))
    /\ (In(T_MYKAD, HeaderText(header)) \/ In(Upper(K_mykid), HeaderText(header)))
    /\ In(T_UMUR, HeaderText(header))

ChildTableStarts(page) ==
    {t \in 1..Len(page.tables) :
        page.tables[t] # <<>> /\ HeaderNamesChildColumns(page.tables[t][1])}

FirstChildTable(page) ==
    page.tables[CHOOSE t \in ChildTableStarts(page) : \A u \in ChildTableStarts(page) : t <= u]

\* C28 as written: the children returned are those of the first table whose
\* header row contains NAMA, MYKAD or MYKID, and UMUR; the result is the
\* empty list when the page has no such table or table detection fails.
C28_AcceptsMykadOrMykidHeader ==
    (call.fn = "extract_anak_table" /\ call.done) =>
        IF call.page.tables_ok /\ ChildTableStarts(call.page) # {}
        THEN call.ret = ChildrenOf(Tail(FirstChildTable(call.page)), FirstChildTable(call.page)[1])
        ELSE call.ret = <<>>

\* What the code does: a header that says MYKID and not MYKAD is not the
\* children table, whatever its rows.
MykidOnlyHeaderRejected ==
    (call.fn = "extract_anak_table" /\ call.done /\ call.page.tables_ok
        /\ \A t \in 1..Len(call.page.tables) :
               call.page.tables[t] # <<>> => ~In(T_MYKAD, HeaderText(call.page.tables[t][1])))
    => call.ret = <<>>

\* --------------------------------------------- normal form of the box text
NoOuterWhitespace(t) ==
    t = <<>> \/ (t[1] \notin Whitespace /\ t[Len(t)] \notin Whitespace)

NoDoubleWhitespace(t) ==
    \A i \in 1..(Len(t) - 1) : ~(t[i] \in Whitespace /\ t[i + 1] \in Whitespace)

NoTrailingPunctuation(t) == t = <<>> \/ t[Len(t)] \notin {":", ";", ",", "."}

\* C29 as written: every string extract_text_from_box returns has no
\* leading or trailing whitespace, no two consecutive whitespace characters
\* and no trailing ':', ';', ',' or '.', whatever words matched.
C29_BoxTextInNormalForm ==
    (BoxCallDone /\ ~call.ret.raised) =>
        /\ NoOuterWhitespace(call.ret.value)
        /\ NoDoubleWhitespace(call.ret.value)
        /\ NoTrailingPunctuation(call.ret.value)

\* What the code does: everything but the trailing whitespace holds, and a
\* trailing space is what is left of a last word made of punctuation.
BoxTextNormalButForTrailingSpace ==
    (BoxCallDone /\ ~call.ret.raised) =>
        /\ call.ret.value = <<>> \/ call.ret.value[1] \notin Whitespace
        /\ NoDoubleWhitespace(call.ret.value)
        /\ NoTrailingPunctuation(call.ret.value)
        /\ NoOuterWhitespace(call.ret.value)
            \/ \E i \in 1..Len(call.page.words) :
                   /\ call.page.words[i].text # <<>>
                   /\ \A k \in 1..Len(call.page.words[i].text) :
                          call.page.words[i].text[k] \in {":", ";", ",", "."}

\* ------------------------- SpecProgress: process_pdfs, one await at a time
\* The coroutine process_pdfs with its awaits as steps: call.pc is the
\* position in the loop body, call.idx the file of the iteration, call.log
\* the notifications the callback has received, call.in_flight the number
\* of extract_from_pdf calls running in the thread pool.
Notification(idx, status) == [idx |-> idx, status |-> status]

\* `if progress_callback: await progress_callback(idx, total, ..., status)`
Notified(log, progress_callback, idx, status) ==
    IF progress_callback.present THEN Append(log, Notification(idx, status)) ELSE log

\* The variant that reports every file as completed.
TerminalStatuses_AlwaysSuccess(out, progress_callback) == <<"success">>

\* Lines 57-58 and 67-68: the statuses notified once the extraction of a
\* file has ended; "error" follows "success" when the "success"
\* notification itself raises into the except clause.
TerminalStatuses(out, progress_callback) ==
    IF out.kind = "ok"
    THEN (IF NotifyRaises(progress_callback, "success")
          THEN <<"success", "error">> ELSE <<"success">>)
    ELSE <<"error">>

RECURSIVE NotifiedAll(_, _, _, _)
NotifiedAll(log, progress_callback, idx, statuses) ==
    IF statuses = <<>> THEN log
    ELSE NotifiedAll(Notified(log, progress_callback, idx, Head(statuses)),
                     progress_callback, idx, Tail(statuses))

ProgressCall(pdf_files, progress_callback, flds) ==
    [fn |-> "progress", done |-> FALSE, pdf_files |-> pdf_files,
     progress_callback |-> progress_callback, pc |-> "loop", idx |-> 1,
     result |-> BatchStart(flds), log |-> <<>>, in_flight |-> 0,
     out |-> NoExtraction]

InitProgress ==
    /\ template_files \in TemplateFileSets
    /\ template_path = BaseTemplatePath
    /\ fields = template_files[BaseTemplatePath]
    /\ n_docs = 0
    /\ last = NoExtraction
    /\ call \in {ProgressCall(pdf_files, cb, template_files[BaseTemplatePath]) :
                    pdf_files \in FileLists, cb \in Callbacks}

\* Lines 46-50: the next file of the list and its "processing" notification.
NotifyProcessing ==
    /\ call.fn = "progress" /\ call.pc = "loop"
    /\ call.idx <= Len(call.pdf_files)
    /\ call' = [call EXCEPT
                   !.log = Notified(@, call.progress_callback, call.idx, "processing"),
                   !.pc = "submit"]
    /\ UNCHANGED <<template_files, template_path, fields, n_docs, last>>

\* Line 54: asyncio.to_thread hands extract_from_pdf to the thread pool and
\* the coroutine waits for it.
StartExtraction ==
    /\ call.fn = "progress" /\ call.pc = "submit"
    /\ call' = [call EXCEPT
                   !.result.attempted = Append(@, call.idx),
                   !.in_flight = @ + 1,
                   !.pc = "await"]
    /\ UNCHANGED <<template_files, template_path, fields, n_docs, last>>

\* The thread runs extract_from_pdf to its end, by return or by exception.
FinishExtraction ==
    /\ call.fn = "progress" /\ call.pc = "await"
    /\ \E out \in {ExtractOutcome(fields, template_path, template_files,
                                  call.pdf_files[call.idx])} :
           /\ call' = [call EXCEPT !.out = out, !.in_flight = @ - 1, !.pc = "resume"]
           /\ fields' = out.fields_after
    /\ UNCHANGED <<template_files, template_path, n_docs, last>>

\* Lines 55-70: the coroutine resumes, files the outcome and notifies it.
RecordOutcome ==
    /\ call.fn = "progress" /\ call.pc = "resume"
    /\ \E st \in {AfterExtract(call.result, call.idx, call.out, call.progress_callback)} :
           call' = [call EXCEPT
                       !.result = st,
                       !.log = NotifiedAll(@, call.progress_callback, call.idx,
                                   TerminalStatuses(call.out, call.progress_callback)),
                       !.out = NoExtraction,
                       !.idx = @ + 1,
                       !.pc = IF st.raised THEN "raised" ELSE "loop",
                       !.done = st.raised]
    /\ UNCHANGED <<template_files, template_path, fields, n_docs, last>>

\* Line 72: return all_data, failed_files
ReturnLists ==
    /\ call.fn = "progress" /\ call.pc = "loop"
    /\ call.idx > Len(call.pdf_files)
    /\ call' = [call EXCEPT !.pc = "returned", !.done = TRUE]
    /\ UNCHANGED <<template_files, template_path, fields, n_docs, last>>

NextProgress ==
    \/ NotifyProcessing
    \/ StartExtraction
    \/ FinishExtraction
    \/ RecordOutcome
    \/ ReturnLists

SpecProgress == InitProgress /\ [][NextProgress]_vars

\* The statuses file i has been notified with, in order.
StatusesOf(log, i) ==
    LET own == SelectSeq(log, LAMBDA n : n.idx = i)
    IN  [k \in 1..Len(own) |-> own[k].status]

\* What file i must have been notified with once its iteration is over.
SettledStatuses(st, i) ==
    IF InAllData(st, i) THEN <<"processing", "success">> ELSE <<"processing", "error">>

\* C30: with a progress callback, the notifications come file by file in
\* list order; no extraction runs while another one does; a file's
\* "processing" notification precedes the start of its extraction; and a
\* file whose iteration is over has been notified "processing" and then
\* exactly once more, "success" if its record is in all_data and "error" if
\* it is in failed_files.
C30_NotificationsInFileOrder ==
    (call.fn = "progress" /\ call.progress_callback.present) =>
        /\ \A j, k \in 1..Len(call.log) : j < k => call.log[j].idx <= call.log[k].idx
        /\ call.in_flight <= 1
        /\ \A i \in 1..Len(call.pdf_files) :
               IF i < call.idx
               THEN /\ StatusesOf(call.log, i) = SettledStatuses(call.result, i)
                    /\ InAllData(call.result, i) # InFailedFiles(call.result, i)
               ELSE IF i = call.idx /\ call.pc \in {"submit", "await", "resume"}
               THEN StatusesOf(call.log, i) = <<"processing">>
               ELSE StatusesOf(call.log, i) = <<>>
        /\ call.in_flight = 1 =>
               call.log[Len(call.log)] = Notification(call.idx, "processing")

\* The batch [unopenable file, readable file] has returned after four
\* notifications.
C30_Witness ==
    /\ call.fn = "progress" /\ call.pc = "returned"
    /\ call.progress_callback.present
    /\ call.pdf_files = <<UnreadableDoc, DocMarried>>
    /\ call.log = <<Notification(1, "processing"), Notification(1, "error"),
                    Notification(2, "processing"), Notification(2, "success")>>

\* Without a callback nothing is notified, and the lists are the same.
NoCallbackNoNotifications ==
    (call.fn = "progress" /\ ~call.progress_callback.present) => call.log = <<>>

\* The stepwise run ends with the lists process_pdfs returns.
StepwiseRunAgrees ==
    (call.fn = "progress" /\ call.pc = "returned") =>
        call.result = process_pdfs(call.pdf_files, call.progress_callback,
                          template_files[BaseTemplatePath], template_path, template_files)

====
